---- MODULE Spec2Model ----
(***************************************************************************)
(* rGuiStyler v3.5: the style property store, the baseline (styleBackup),  *)
(* the changed-properties diff and the exporters that are built on it      *)
(* (SaveStyle binary/text, ExportStyleAsCode, StyleChangesCounter), with   *)
(* the session events of main() that load, reset and edit the style.       *)
(*                                                                         *)
(* The store is the raygui style table.  It is modelled with the layout    *)
(* the tool itself uses for styleBackup: a flat array indexed              *)
(* control*(RAYGUI_MAX_PROPS_BASE + RAYGUI_MAX_PROPS_EXTENDED) + property. *)
(* Files are sequences of bytes (binary) or sequences of lines, a line     *)
(* being the sequence of text fragments the fprintf calls produce, every   *)
(* digit of a formatted number being one fragment.                         *)
(***************************************************************************)
EXTENDS Integers, Sequences, FiniteSets, TLC

\* ------------------------------------------------------------------ bounds
\* The model explores a window of the 16 x (16 + 8) raygui style table: its
\* first MaxControls controls, with all the base properties and the first
\* MaxPropsExtended extended properties of each.
MaxControls == 5          \* controls modelled: DEFAULT (0) .. SLIDER (4)
MaxPropsExtended == 4     \* extended properties modelled per control
MaxChanged == 2           \* pairs the user leaves edited away from the baseline
MaxGlyphs == 2            \* glyphs of the largest font a font file provides
MaxCompSize == 2          \* bytes of the largest compressed atlas

RAYGUI_MAX_CONTROLS == MaxControls
RAYGUI_MAX_PROPS_BASE == 16
RAYGUI_MAX_PROPS_EXTENDED == MaxPropsExtended
NumProps == RAYGUI_MAX_PROPS_BASE + RAYGUI_MAX_PROPS_EXTENDED

Controls == 0 .. (RAYGUI_MAX_CONTROLS - 1)
Props == 0 .. (NumProps - 1)
Cells == 0 .. (RAYGUI_MAX_CONTROLS*NumProps - 1)

\* GuiStyleFileType
STYLE_BINARY == 0
STYLE_AS_CODE == 1
STYLE_TABLE_IMAGE == 2
STYLE_TEXT == 3

\* raylib PixelFormat codes used by the font atlas
PIXELFORMAT_UNCOMPRESSED_GRAY_ALPHA == 2
PIXELFORMAT_UNCOMPRESSED_R8G8B8A8 == 7

\* Property values the user picks: 0 and the colour 0x202020FF of the
\* specification's scenario (32-bit values are kept below 2^31).
ColorSample == 32*16777216 + 32*65536 + 32*256 + 255
StyleValues == {0, ColorSample}

\* ----------------------------------------------------------- byte encoding
Pow256(k) == IF k = 0 THEN 1 ELSE IF k = 1 THEN 256 ELSE IF k = 2 THEN 65536 ELSE 16777216

\* fwrite(&x, 1, n, f) of an n-byte integer on the little-endian host; the
\* floor division makes a negative int its two's complement bytes.
LEBytes(x, n) == [k \in 1 .. n |-> (x \div Pow256(k - 1)) % 256]

\* The unsigned integer stored in the n bytes that start at offset off (0-based)
ReadUnsigned(bytes, off, n) ==
    LET b(k) == bytes[off + k]
    IN  IF n = 2 THEN b(1) + 256*b(2)
        ELSE b(1) + 256*b(2) + 65536*b(3) + 16777216*b(4)

\* The int stored in the 4 bytes at offset off
ReadInt(bytes, off) ==
    IF bytes[off + 4] >= 128
    THEN 0 - ((255 - bytes[off + 1]) + 256*(255 - bytes[off + 2])
              + 65536*(255 - bytes[off + 3]) + 16777216*(255 - bytes[off + 4])) - 1
    ELSE ReadUnsigned(bytes, off, 4)

RECURSIVE Log2Floor(_)
Log2Floor(n) == IF n <= 1 THEN 0 ELSE 1 + Log2Floor(n \div 2)

RECURSIVE Pow2(_)
Pow2(k) == IF k = 0 THEN 1 ELSE 2*Pow2(k - 1)

\* The IEEE-754 single precision bit pattern of a small non-negative whole
\* number (the members of a Rectangle are floats)
FloatBits(n) ==
    IF n = 0 THEN 0
    ELSE LET e == Log2Floor(n)
         IN  (127 + e)*Pow2(23) + (n - Pow2(e))*Pow2(23 - e)

FloatOfBits(b) ==
    IF b = 0 THEN 0
    ELSE LET e == (b \div Pow2(23)) - 127
             m == b % Pow2(23)
         IN  Pow2(e) + (m \div Pow2(23 - e))

\* sizeof(Rectangle) = 16: x, y, width, height
RectangleBytes(r) ==
    LEBytes(FloatBits(r.x), 4) \o LEBytes(FloatBits(r.y), 4)
    \o LEBytes(FloatBits(r.width), 4) \o LEBytes(FloatBits(r.height), 4)

ZeroRectangle == [x |-> 0, y |-> 0, width |-> 0, height |-> 0]

\* char signature[5] = "rGS "
Signature == <<114, 71, 83, 32>>

\* --------------------------------------------------------------- the store
\* raygui DEFAULT extended property TEXT_SIZE: the first extended property
TEXT_SIZE == RAYGUI_MAX_PROPS_BASE
\* raygui DEFAULT extended properties TEXT_SPACING, LINE_COLOR, BACKGROUND_COLOR
TEXT_SPACING == RAYGUI_MAX_PROPS_BASE + 1
LINE_COLOR == RAYGUI_MAX_PROPS_BASE + 2
BACKGROUND_COLOR == RAYGUI_MAX_PROPS_BASE + 3

\* GuiGetStyle(control, property) on a style table
GuiGetStyle(style, control, property) == style[control*NumProps + property]

\* GuiSetStyle(control, property, value): the store's set operation
GuiSetStyle(style, control, property, value) ==
    [style EXCEPT ![control*NumProps + property] = value]

\* GuiLoadStyleDefault(): the built-in default style (text size 10, spacing 1)
DefaultStyle ==
    [k \in Cells |-> IF k = TEXT_SIZE THEN 10 ELSE IF k = TEXT_SPACING THEN 1 ELSE 0]

\* ------------------------------------------------------------------- fonts
Glyph(i) == [value |-> 32 + i, offsetX |-> 0 - 1, offsetY |-> i, advanceX |-> 1]
GlyphRec(i) == [x |-> i, y |-> 0, width |-> 1, height |-> 1]

\* A loaded Font: its atlas texture is 2 x 1 pixels
MakeFont(size, count, fmt) ==
    [baseSize |-> size, glyphCount |-> count,
     texture |-> [id |-> 1, width |-> 2, height |-> 1, format |-> fmt],
     recs |-> [i \in 1 .. count |-> GlyphRec(i - 1)],
     glyphs |-> [i \in 1 .. count |-> Glyph(i - 1)]]

\* GetFontDefault()
FontDefault == MakeFont(10, 1, PIXELFORMAT_UNCOMPRESSED_GRAY_ALPHA)

\* Font = { 0 }
NoFont == [baseSize |-> 0, glyphCount |-> 0,
           texture |-> [id |-> 0, width |-> 0, height |-> 0, format |-> 0],
           recs |-> <<>>, glyphs |-> <<>>]

\* The font files on disk: path -> what LoadFontEx makes of it ("bad.ttf"
\* cannot be loaded)
FontFiles ==
    {[path |-> "font.ttf", glyphCount |-> MaxGlyphs, format |-> PIXELFORMAT_UNCOMPRESSED_R8G8B8A8],
     [path |-> "bad.ttf", glyphCount |-> 0, format |-> 0]}

\* LoadFontEx(path, size, NULL, 0): texture.id = 0 when the file is no font
LoadFontEx(file, size) ==
    IF file.glyphCount = 0 THEN NoFont ELSE MakeFont(size, file.glyphCount, file.format)

\* GetPixelDataSize(width, height, format) for the two atlas formats
GetPixelDataSize(width, height, format) ==
    IF format = PIXELFORMAT_UNCOMPRESSED_GRAY_ALPHA THEN width*height*2
    ELSE IF format = PIXELFORMAT_UNCOMPRESSED_R8G8B8A8 THEN width*height*4
    ELSE 0

\* CompressData(data, size, &compSize): the DEFLATE stream of n bytes
CompressData(n) == [k \in 1 .. n |-> 120 + k]

\* The length of the DEFLATE stream of a font's atlas: it grows with what the
\* atlas holds, here one byte and one more per glyph, MaxCompSize at most
CompressedSize(font) ==
    IF 1 + font.glyphCount > MaxCompSize THEN MaxCompSize ELSE 1 + font.glyphCount

\* ------------------------------------------------ StyleChangesCounter()
RECURSIVE CountDefaultLoop(_, _, _)
CountDefaultLoop(style, backup, i) ==
    IF i >= NumProps THEN 0
    ELSE (IF backup[i] # GuiGetStyle(style, 0, i) THEN 1 ELSE 0)
         + CountDefaultLoop(style, backup, i + 1)

RECURSIVE CountPropsLoopNoFallback(_, _, _, _)
\* CountPropsLoop without the comparison against the DEFAULT value
CountPropsLoopNoFallback(style, backup, i, j) ==
    IF j >= NumProps THEN 0
    ELSE (IF backup[i*NumProps + j] # GuiGetStyle(style, i, j) THEN 1 ELSE 0)
         + CountPropsLoopNoFallback(style, backup, i, j + 1)

RECURSIVE CountControlsLoopNoFallback(_, _, _, _)
\* CountControlsLoop over CountPropsLoopNoFallback
CountControlsLoopNoFallback(style, backup, i, j) ==
    IF i >= RAYGUI_MAX_CONTROLS THEN 0
    ELSE CountPropsLoopNoFallback(style, backup, i, j)
         + CountControlsLoopNoFallback(style, backup, i + 1, 0)

\* The inner loop: for (int j = 0; j < (BASE + EXTENDED); j++), control i
RECURSIVE CountPropsLoop(_, _, _, _)
CountPropsLoop(style, backup, i, j) ==
    IF j >= NumProps THEN 0
    ELSE (IF (backup[i*NumProps + j] # GuiGetStyle(style, i, j))
             /\ (GuiGetStyle(style, i, j) # GuiGetStyle(style, 0, j))
          THEN 1 ELSE 0)
         + CountPropsLoop(style, backup, i, j + 1)

\* The outer loop: for (int i = 1; i < RAYGUI_MAX_CONTROLS; i++)
RECURSIVE CountControlsLoop(_, _, _, _)
CountControlsLoop(style, backup, i, j) ==
    IF i >= RAYGUI_MAX_CONTROLS THEN 0
    ELSE CountPropsLoop(style, backup, i, j) + CountControlsLoop(style, backup, i + 1, 0)

StyleChangesCounter(style, backup) ==
    CountDefaultLoop(style, backup, 0) + CountControlsLoop(style, backup, 1, 0)

\* ------------------------------------------- SaveStyle(), format STYLE_BINARY
\* RecordBytes with the two ids written in the opposite order
RecordBytesIdsSwapped(controlId, propertyId, propertyValue) ==
    LEBytes(propertyId % 65536, 2) \o LEBytes(controlId % 65536, 2) \o LEBytes(propertyValue, 4)

\* fwrite of controlId (short), propertyId (short), propertyValue (int)
RecordBytes(controlId, propertyId, propertyValue) ==
    LEBytes(controlId % 65536, 2) \o LEBytes(propertyId % 65536, 2) \o LEBytes(propertyValue, 4)

\* "Save first all properties that have changed in DEFAULT style"
RECURSIVE BinaryDefaultLoop(_, _, _)
BinaryDefaultLoop(style, backup, i) ==
    IF i >= NumProps THEN <<>>
    ELSE (IF backup[i] # GuiGetStyle(style, 0, i)
          THEN RecordBytes(0, i, GuiGetStyle(style, 0, i))
          ELSE <<>>)
         \o BinaryDefaultLoop(style, backup, i + 1)

RECURSIVE BinaryPropsLoopNoFallback(_, _, _, _)
\* BinaryPropsLoop without the comparison against the DEFAULT value
BinaryPropsLoopNoFallback(style, backup, i, j) ==
    IF j >= NumProps THEN <<>>
    ELSE (IF backup[i*NumProps + j] # GuiGetStyle(style, i, j)
          THEN LEBytes(i % 65536, 2) \o LEBytes(j % 65536, 2)
               \o LEBytes(GuiGetStyle(style, i, j), 4)
          ELSE <<>>)
         \o BinaryPropsLoopNoFallback(style, backup, i, j + 1)

RECURSIVE BinaryControlsLoopNoFallback(_, _, _, _)
\* BinaryControlsLoop over BinaryPropsLoopNoFallback
BinaryControlsLoopNoFallback(style, backup, i, j) ==
    IF i >= RAYGUI_MAX_CONTROLS THEN <<>>
    ELSE BinaryPropsLoopNoFallback(style, backup, i, j)
         \o BinaryControlsLoopNoFallback(style, backup, i + 1, 0)

\* The inner loop: for (int j = 0; j < (BASE + EXTENDED); j++), control i
RECURSIVE BinaryPropsLoop(_, _, _, _)
BinaryPropsLoop(style, backup, i, j) ==
    IF j >= NumProps THEN <<>>
    ELSE (IF (backup[i*NumProps + j] # GuiGetStyle(style, i, j))
             /\ (GuiGetStyle(style, i, j) # GuiGetStyle(style, 0, j))
          THEN RecordBytes(i, j, GuiGetStyle(style, i, j))
          ELSE <<>>)
         \o BinaryPropsLoop(style, backup, i, j + 1)

\* "Save all properties that have changed in comparison to DEFAULT style"
RECURSIVE BinaryControlsLoop(_, _, _, _)
BinaryControlsLoop(style, backup, i, j) ==
    IF i >= RAYGUI_MAX_CONTROLS THEN <<>>
    ELSE BinaryPropsLoop(style, backup, i, j) \o BinaryControlsLoop(style, backup, i + 1, 0)

\* signature, version 200, reserved 0, then the count from StyleChangesCounter()
\* BinaryHeader without the reserved short
BinaryHeaderNoReserved(style, backup) ==
    Signature \o LEBytes(200, 2) \o LEBytes(StyleChangesCounter(style, backup), 4)

BinaryHeader(style, backup) ==
    Signature \o LEBytes(200, 2) \o LEBytes(0, 2)
    \o LEBytes(StyleChangesCounter(style, backup), 4)

\* BinaryRecords with the two loops in the opposite order
BinaryRecordsControlsFirst(style, backup) ==
    BinaryControlsLoop(style, backup, 1, 0) \o BinaryDefaultLoop(style, backup, 0)

BinaryRecords(style, backup) ==
    BinaryDefaultLoop(style, backup, 0) \o BinaryControlsLoop(style, backup, 1, 0)

\* The value written as the font data size (SUPPORT_COMPRESSED_FONT_ATLAS):
\* fontParamsSize + fontImageCompSize + fontGlyphDataSize
FontDataSize(font, compSize) == 32 + compSize + font.glyphCount*32

\* "Write font recs data"
RECURSIVE FontRecsBytes(_, _)
FontRecsBytes(font, i) ==
    IF i >= font.glyphCount THEN <<>>
    ELSE RectangleBytes(font.recs[i + 1]) \o FontRecsBytes(font, i + 1)

\* "Write font chars info data"
RECURSIVE FontGlyphsBytes(_, _)
FontGlyphsBytes(font, i) ==
    IF i >= font.glyphCount THEN <<>>
    ELSE LEBytes(font.glyphs[i + 1].value, 4) \o LEBytes(font.glyphs[i + 1].offsetX, 4)
         \o LEBytes(font.glyphs[i + 1].offsetY, 4) \o LEBytes(font.glyphs[i + 1].advanceX, 4)
         \o FontGlyphsBytes(font, i + 1)

RECURSIVE FontGlyphsInterleaved(_, _)
\* The glyph data with each glyph's rectangle followed by its own metrics
FontGlyphsInterleaved(font, i) ==
    IF i >= font.glyphCount THEN <<>>
    ELSE RectangleBytes(font.recs[i + 1])
         \o LEBytes(font.glyphs[i + 1].value, 4) \o LEBytes(font.glyphs[i + 1].offsetX, 4)
         \o LEBytes(font.glyphs[i + 1].offsetY, 4) \o LEBytes(font.glyphs[i + 1].advanceX, 4)
         \o FontGlyphsInterleaved(font, i + 1)

FontGlyphDataInterleaved(font) == FontGlyphsInterleaved(font, 0)

FontGlyphData(font) == FontRecsBytes(font, 0) \o FontGlyphsBytes(font, 0)

\* FontSection without the ImageFormat call: the atlas keeps the texture's format
FontSectionNoImageFormat(font, compSize) ==
    LET imFormat == font.texture.format
        fontImageUncompSize ==
            GetPixelDataSize(font.texture.width, font.texture.height, imFormat)
    IN  LEBytes(FontDataSize(font, compSize), 4)
        \o LEBytes(font.baseSize, 4)
        \o LEBytes(font.glyphCount, 4)
        \o LEBytes(0, 4)
        \o RectangleBytes(ZeroRectangle)
        \o LEBytes(fontImageUncompSize, 4)
        \o LEBytes(compSize, 4)
        \o LEBytes(font.texture.width, 4)
        \o LEBytes(font.texture.height, 4)
        \o LEBytes(imFormat, 4)
        \o CompressData(compSize)
        \o FontGlyphData(font)

\* "Write font data (embedding)": imFont is the atlas read back from the
\* texture and forced to GRAY+ALPHA; compSize is what CompressData returns
FontSection(font, compSize) ==
    LET imFormat == IF font.texture.format # PIXELFORMAT_UNCOMPRESSED_GRAY_ALPHA
                    THEN PIXELFORMAT_UNCOMPRESSED_GRAY_ALPHA
                    ELSE font.texture.format
        fontImageUncompSize ==
            GetPixelDataSize(font.texture.width, font.texture.height, imFormat)
    IN  LEBytes(FontDataSize(font, compSize), 4)
        \o LEBytes(font.baseSize, 4)
        \o LEBytes(font.glyphCount, 4)
        \o LEBytes(0, 4)
        \o RectangleBytes(ZeroRectangle)
        \o LEBytes(fontImageUncompSize, 4)
        \o LEBytes(compSize, 4)
        \o LEBytes(font.texture.width, 4)
        \o LEBytes(font.texture.height, 4)
        \o LEBytes(imFormat, 4)
        \o CompressData(compSize)
        \o FontGlyphData(font)

\* SaveStyleBinary that writes nothing after the records when no font is loaded
SaveStyleBinaryNoFontField(style, backup, fontLoaded, font, compSize) ==
    BinaryHeader(style, backup)
    \o BinaryRecords(style, backup)
    \o (IF fontLoaded THEN FontSection(font, compSize) ELSE <<>>)

\* The bytes the binary branch writes between fopen and fclose
SaveStyleBinary(style, backup, fontLoaded, font, compSize) ==
    BinaryHeader(style, backup)
    \o BinaryRecords(style, backup)
    \o (IF fontLoaded THEN FontSection(font, compSize) ELSE LEBytes(0, 4))

\* ------------------------------------------------ GuiLoadStyle(), binary .rgs
\* Offset of the font-size field of a file that declares n records
FontOffset(n) == 12 + 8*n

RECURSIVE ReadRecords(_, _, _)
\* The records k .. n-1 of the file, as <<controlId, propertyId, value>>
ReadRecords(bytes, n, k) ==
    IF k >= n THEN <<>>
    ELSE << <<ReadUnsigned(bytes, 12 + 8*k, 2), ReadUnsigned(bytes, 12 + 8*k + 2, 2),
              ReadInt(bytes, 12 + 8*k + 4)>> >>
         \o ReadRecords(bytes, n, k + 1)

RECURSIVE ApplyRecords(_, _)
\* "read N records into the target Property Store", in file order
ApplyRecords(style, records) ==
    IF records = <<>> THEN style
    ELSE ApplyRecords(GuiSetStyle(style, records[1][1], records[1][2], records[1][3]),
                      Tail(records))

ReadRectangle(bytes, off) ==
    [x |-> FloatOfBits(ReadUnsigned(bytes, off, 4)),
     y |-> FloatOfBits(ReadUnsigned(bytes, off + 4, 4)),
     width |-> FloatOfBits(ReadUnsigned(bytes, off + 8, 4)),
     height |-> FloatOfBits(ReadUnsigned(bytes, off + 12, 4))]

\* The font of the font section that starts at offset o (its size field)
ReadFont(bytes, o) ==
    LET count == ReadInt(bytes, o + 8)
        stored == ReadInt(bytes, o + 36)
        recsAt == o + 52 + stored
        glyphsAt == recsAt + 16*count
    IN  [baseSize |-> ReadInt(bytes, o + 4), glyphCount |-> count,
         texture |-> [id |-> 1, width |-> ReadInt(bytes, o + 40),
                      height |-> ReadInt(bytes, o + 44), format |-> ReadInt(bytes, o + 48)],
         recs |-> [i \in 1 .. count |-> ReadRectangle(bytes, recsAt + 16*(i - 1))],
         glyphs |-> [i \in 1 .. count |->
                        [value |-> ReadInt(bytes, glyphsAt + 16*(i - 1)),
                         offsetX |-> ReadInt(bytes, glyphsAt + 16*(i - 1) + 4),
                         offsetY |-> ReadInt(bytes, glyphsAt + 16*(i - 1) + 8),
                         advanceX |-> ReadInt(bytes, glyphsAt + 16*(i - 1) + 12)]]]

\* Bytes a well-formed file holds, given what its fields declare
FontSectionComplete(bytes, o) ==
    /\ Len(bytes) >= o + 52
    /\ Len(bytes) >= o + 52 + ReadInt(bytes, o + 36) + 32*ReadInt(bytes, o + 8)

\* StyleFileError without the validation of the magic
StyleFileErrorNoMagic(bytes) ==
    IF Len(bytes) < 12 THEN "TruncatedFileError"
    ELSE IF ReadUnsigned(bytes, 4, 2) # 200 THEN "UnsupportedVersionError"
    ELSE IF Len(bytes) < FontOffset(ReadInt(bytes, 8)) + 4 THEN "TruncatedFileError"
    ELSE IF ReadInt(bytes, FontOffset(ReadInt(bytes, 8))) # 0
            /\ ~FontSectionComplete(bytes, FontOffset(ReadInt(bytes, 8)))
         THEN "TruncatedFileError"
    ELSE "none"

\* Header validation: magic, version, and no truncation (EOF before an
\* expected field)
StyleFileError(bytes) ==
    IF Len(bytes) < 4 THEN "TruncatedFileError"
    ELSE IF SubSeq(bytes, 1, 4) # Signature THEN "FormatError"
    ELSE IF Len(bytes) < 12 THEN "TruncatedFileError"
    ELSE IF ReadUnsigned(bytes, 4, 2) # 200 THEN "UnsupportedVersionError"
    ELSE IF Len(bytes) < FontOffset(ReadInt(bytes, 8)) + 4 THEN "TruncatedFileError"
    ELSE IF ReadInt(bytes, FontOffset(ReadInt(bytes, 8))) # 0
            /\ ~FontSectionComplete(bytes, FontOffset(ReadInt(bytes, 8)))
         THEN "TruncatedFileError"
    ELSE "none"

\* GuiLoadStyle(fileName) onto the store `style` and the gui font `font`: a file
\* that fails validation changes nothing; font size 0 leaves the font alone
GuiLoadStyle(bytes, style, font) ==
    IF StyleFileError(bytes) # "none"
    THEN [error |-> StyleFileError(bytes), style |-> style, font |-> font]
    ELSE LET n == ReadInt(bytes, 8)
         IN  [error |-> "none",
              style |-> ApplyRecords(style, ReadRecords(bytes, n, 0)),
              font |-> IF ReadInt(bytes, FontOffset(n)) = 0 THEN font
                       ELSE ReadFont(bytes, FontOffset(n))]

\* ----------------------------------------------------- style files on disk
\* A style that changes one DEFAULT property and one property of control 1
SampleStyle ==
    GuiSetStyle(GuiSetStyle(DefaultStyle, 0, 0, ColorSample), 1, NumProps - 1, ColorSample)

\* The font embedded in "font.rgs": one glyph, size 12
FileFont == MakeFont(12, 1, PIXELFORMAT_UNCOMPRESSED_GRAY_ALPHA)

\* The bytes of "sample.rgs", as the tool saved them
SampleBytes == SaveStyleBinary(SampleStyle, DefaultStyle, FALSE, NoFont, CompressedSize(NoFont))

\* Files saved earlier by the tool: one without and one with an embedded
\* font; "bad.rgs" is the first with another first byte ("RGS "), "cut.rgs"
\* is the first cut in the middle of its first record
StyleFiles ==
    {[path |-> "sample.rgs", bytes |-> SampleBytes],
     [path |-> "font.rgs",
      bytes |-> SaveStyleBinary(GuiSetStyle(DefaultStyle, 0, TEXT_SIZE, 12), DefaultStyle, TRUE,
                                FileFont, CompressedSize(FileFont))],
     [path |-> "bad.rgs", bytes |-> <<82>> \o Tail(SampleBytes)],
     [path |-> "cut.rgs", bytes |-> SubSeq(SampleBytes, 1, 14)]}

\* ------------------------------------------------------------ text output
\* A text file is the sequence of fragments the fprintf calls write; NL is
\* the newline character.  Every digit of a formatted number is a fragment.
NL == "\n"

HexChars == <<"0", "1", "2", "3", "4", "5", "6", "7", "8", "9", "a", "b", "c", "d", "e", "f">>

RECURSIVE DecDigits(_)
\* printf("%i") of n >= 0
DecDigits(n) ==
    IF n < 10 THEN <<HexChars[n + 1]>>
    ELSE DecDigits(n \div 10) \o <<HexChars[(n % 10) + 1]>>

\* printf("%i") of an int
FormatInt(n) == IF n < 0 THEN <<"-">> \o DecDigits(0 - n) ELSE DecDigits(n)

\* printf("%02i") of n >= 0
Format02i(n) == IF n < 10 THEN <<"0">> \o DecDigits(n) ELSE DecDigits(n)

RECURSIVE HexDigits(_)
HexDigits(n) ==
    IF n < 16 THEN <<HexChars[n + 1]>>
    ELSE HexDigits(n \div 16) \o <<HexChars[(n % 16) + 1]>>

\* printf("0x%08x") of n >= 0
Format08x(n) ==
    <<"0x">> \o [k \in 1 .. (8 - Len(HexDigits(n))) |-> "0"] \o HexDigits(n)

\* printf("0x%02x") of a byte
Format02x(n) ==
    <<"0x">> \o [k \in 1 .. (2 - Len(HexDigits(n))) |-> "0"] \o HexDigits(n)

guiControlText ==
    <<"DEFAULT", "LABEL", "BUTTON", "TOGGLE", "SLIDER", "PROGRESSBAR", "CHECKBOX",
      "COMBOBOX", "DROPDOWNBOX", "TEXTBOX", "VALUEBOX", "SPINNER", "LISTVIEW",
      "COLORPICKER", "SCROLLBAR", "STATUSBAR">>

guiPropsText ==
    <<"BORDER_COLOR_NORMAL", "BASE_COLOR_NORMAL", "TEXT_COLOR_NORMAL",
      "BORDER_COLOR_FOCUSED", "BASE_COLOR_FOCUSED", "TEXT_COLOR_FOCUSED",
      "BORDER_COLOR_PRESSED", "BASE_COLOR_PRESSED", "TEXT_COLOR_PRESSED",
      "BORDER_COLOR_DISABLED", "BASE_COLOR_DISABLED", "TEXT_COLOR_DISABLED",
      "BORDER_WIDTH", "TEXT_PADDING", "TEXT_ALIGNMENT", "RESERVED">>

guiPropsExText ==
    <<"TEXT_SIZE", "TEXT_SPACING", "LINE_COLOR", "BACKGROUND_COLOR",
      "EXTENDED01", "EXTENDED02", "EXTENDED03", "EXTENDED04">>


\* GetFileName(path): the paths of the model have no directory part
GetFileName(path) == path

\* --------------------------------------------- SaveStyle(), format STYLE_TEXT
\* (j < RAYGUI_MAX_PROPS_BASE)? guiPropsText[j] : TextFormat("EXT%02i", j - BASE)
TextPropName(j) ==
    IF j < RAYGUI_MAX_PROPS_BASE THEN <<guiPropsText[j + 1]>>
    ELSE <<"EXT">> \o Format02i(j - RAYGUI_MAX_PROPS_BASE)

\* "p 00 %02i 0x%08x    DEFAULT_%s \n"
TextDefaultLine(j, value) ==
    <<"p", " ", "0", "0", " ">> \o Format02i(j) \o <<" ">> \o Format08x(value)
    \o <<"    ", "DEFAULT_">> \o TextPropName(j) \o <<" ", NL>>

\* "p %02i %02i 0x%08x    %s_%s \n"
TextControlLine(i, j, value) ==
    <<"p", " ">> \o Format02i(i) \o <<" ">> \o Format02i(j) \o <<" ">> \o Format08x(value)
    \o <<"    ", guiControlText[i + 1], "_">> \o TextPropName(j) \o <<" ", NL>>

\* "Save DEFAULT properties that changed"
RECURSIVE TextDefaultLoop(_, _, _)
TextDefaultLoop(style, backup, j) ==
    IF j >= NumProps THEN <<>>
    ELSE (IF backup[j] # GuiGetStyle(style, 0, j)
          THEN TextDefaultLine(j, GuiGetStyle(style, 0, j))
          ELSE <<>>)
         \o TextDefaultLoop(style, backup, j + 1)

RECURSIVE TextPropsLoopNoFallback(_, _, _, _)
\* TextPropsLoop without the comparison against the DEFAULT value
TextPropsLoopNoFallback(style, backup, i, j) ==
    IF j >= NumProps THEN <<>>
    ELSE (IF backup[i*NumProps + j] # GuiGetStyle(style, i, j)
          THEN TextControlLine(i, j, GuiGetStyle(style, i, j))
          ELSE <<>>)
         \o TextPropsLoopNoFallback(style, backup, i, j + 1)

RECURSIVE TextControlsLoopNoFallback(_, _, _, _)
\* TextControlsLoop over TextPropsLoopNoFallback
TextControlsLoopNoFallback(style, backup, i, j) ==
    IF i >= RAYGUI_MAX_CONTROLS THEN <<>>
    ELSE TextPropsLoopNoFallback(style, backup, i, j)
         \o TextControlsLoopNoFallback(style, backup, i + 1, 0)

\* The inner loop: for (int j = 0; j < (BASE + EXTENDED); j++), control i
RECURSIVE TextPropsLoop(_, _, _, _)
TextPropsLoop(style, backup, i, j) ==
    IF j >= NumProps THEN <<>>
    ELSE (IF (backup[i*NumProps + j] # GuiGetStyle(style, i, j))
             /\ (GuiGetStyle(style, i, j) # GuiGetStyle(style, 0, j))
          THEN TextControlLine(i, j, GuiGetStyle(style, i, j))
          ELSE <<>>)
         \o TextPropsLoop(style, backup, i, j + 1)

\* "Save other controls properties that changed"
RECURSIVE TextControlsLoop(_, _, _, _)
TextControlsLoop(style, backup, i, j) ==
    IF i >= RAYGUI_MAX_CONTROLS THEN <<>>
    ELSE TextPropsLoop(style, backup, i, j) \o TextControlsLoop(style, backup, i + 1, 0)

\* TextHeader without the "f" line: the warning comment alone
TextHeaderNoFontLine(style, fontLoaded, fontPath) ==
    <<"#", NL,
      "# rgs style text file (v", "3.5",
      ") - raygui style file generated using rGuiStyler", NL,
      "#", NL,
      "# Info:  p <controlId> <propertyId> <propertyValue>  // Property description", NL,
      "#", NL>>
    \o (IF fontLoaded
        THEN <<"# WARNING: This style uses a custom font, must be provided with style file", NL>>
        ELSE <<>>)

\* The description comments, and the font lines when a custom font is loaded
TextHeader(style, fontLoaded, fontPath) ==
    <<"#", NL,
      "# rgs style text file (v", "3.5",
      ") - raygui style file generated using rGuiStyler", NL,
      "#", NL,
      "# Info:  p <controlId> <propertyId> <propertyValue>  // Property description", NL,
      "#", NL>>
    \o (IF fontLoaded
        THEN <<"# WARNING: This style uses a custom font, must be provided with style file", NL,
               "f", " ">>
             \o FormatInt(GuiGetStyle(style, 0, TEXT_SIZE)) \o <<" ">>
             \o FormatInt(GuiGetStyle(style, 0, TEXT_SPACING)) \o <<" ">>
             \o <<GetFileName(fontPath), NL>>
        ELSE <<>>)

\* The fragments the text branch writes between fopen and fclose
SaveStyleText(style, backup, fontLoaded, fontPath) ==
    TextHeader(style, fontLoaded, fontPath)
    \o TextDefaultLoop(style, backup, 0)
    \o TextControlsLoop(style, backup, 1, 0)

\* ------------------------------------------------------ ExportStyleAsCode()
BYTES_TEXT_PER_LINE == 20

\* The style name the exports are made under, with raylib's TextToUpper and
\* TextToPascal of it
StyleNames == {"default"}
TextToUpper(styleName) == IF styleName = "default" THEN "DEFAULT" ELSE styleName
TextToPascal(styleName) == IF styleName = "default" THEN "Default" ELSE styleName

CodeBanner(styleName) ==
    <<"//////////////////////////////////////////////////////////////////////////////////", NL,
      "//                                                                              //", NL,
      "// StyleAsCode exporter v1.2 - Style data exported as a values array            //", NL,
      "//                                                                              //", NL,
      "// USAGE: On init call: GuiLoadStyle", TextToPascal(styleName),
      "();                             //", NL,
      "//                                                                              //", NL,
      "// more info and bugs-report:  github.com/raysan5/raygui                        //", NL,
      "// feedback and support:       ray[at]raylibtech.com                            //", NL,
      "//                                                                              //", NL,
      "// Copyright (c) 2020-2022 raylib technologies (@raylibtech)                    //", NL,
      "//                                                                              //", NL,
      "//////////////////////////////////////////////////////////////////////////////////", NL, NL>>

\* "#define %s_STYLE_PROPS_COUNT  %i\n\n" with StyleChangesCounter(), then the
\* opening of the array
CodeArrayOpen(style, backup, styleName) ==
    <<"#define ", TextToUpper(styleName), "_STYLE_PROPS_COUNT  ">>
    \o FormatInt(StyleChangesCounter(style, backup)) \o <<NL, NL>>
    \o <<"// Custom style name: ", styleName, NL>>
    \o <<"static const GuiStyleProp ", styleName, "StyleProps[", TextToUpper(styleName),
         "_STYLE_PROPS_COUNT] = {", NL>>

\* "    { 0, %i, 0x%08x },    // DEFAULT_%s \n"
CodeDefaultLine(i, value) ==
    <<"    { ", "0", ", ">> \o FormatInt(i) \o <<", ">> \o Format08x(value)
    \o <<" },    // ", "DEFAULT_",
         IF i < RAYGUI_MAX_PROPS_BASE THEN guiPropsText[i + 1]
         ELSE guiPropsExText[i - RAYGUI_MAX_PROPS_BASE + 1],
         " ", NL>>

\* "    { %i, %i, 0x%08x },    // %s_%s \n"
CodeControlLine(i, j, value) ==
    <<"    { ">> \o FormatInt(i) \o <<", ">> \o FormatInt(j) \o <<", ">> \o Format08x(value)
    \o <<" },    // ", guiControlText[i + 1], "_">>
    \o (IF j < RAYGUI_MAX_PROPS_BASE THEN <<guiPropsText[j + 1]>>
        ELSE <<"EXTENDED">> \o Format02i(j - RAYGUI_MAX_PROPS_BASE + 1))
    \o <<" ", NL>>

RECURSIVE CodeDefaultLoop(_, _, _)
CodeDefaultLoop(style, backup, i) ==
    IF i >= NumProps THEN <<>>
    ELSE (IF backup[i] # GuiGetStyle(style, 0, i)
          THEN CodeDefaultLine(i, GuiGetStyle(style, 0, i))
          ELSE <<>>)
         \o CodeDefaultLoop(style, backup, i + 1)

\* The inner loop: for (int j = 0; j < (BASE + EXTENDED); j++), control i
RECURSIVE CodePropsLoop(_, _, _, _)
CodePropsLoop(style, backup, i, j) ==
    IF j >= NumProps THEN <<>>
    ELSE (IF (backup[i*NumProps + j] # GuiGetStyle(style, i, j))
             /\ (GuiGetStyle(style, i, j) # GuiGetStyle(style, 0, j))
          THEN CodeControlLine(i, j, GuiGetStyle(style, i, j))
          ELSE <<>>)
         \o CodePropsLoop(style, backup, i, j + 1)

RECURSIVE CodeControlsLoop(_, _, _, _)
CodeControlsLoop(style, backup, i, j) ==
    IF i >= RAYGUI_MAX_CONTROLS THEN <<>>
    ELSE CodePropsLoop(style, backup, i, j) \o CodeControlsLoop(style, backup, i + 1, 0)

\* The array of { control, property, value } triples
CodeStyleProps(style, backup, styleName) ==
    CodeArrayOpen(style, backup, styleName)
    \o CodeDefaultLoop(style, backup, 0)
    \o CodeControlsLoop(style, backup, 1, 0)
    \o <<"};", NL, NL>>

\* for (i < compDataSize - 1) fprintf((i%BYTES_TEXT_PER_LINE == 0)? "0x%02x,\n    " : "0x%02x, ")
RECURSIVE CodeByteLoop(_, _)
CodeByteLoop(compData, i) ==
    IF i >= Len(compData) - 1 THEN <<>>
    ELSE Format02x(compData[i + 1])
         \o (IF i % BYTES_TEXT_PER_LINE = 0 THEN <<",", NL, "    ">> ELSE <<", ">>)
         \o CodeByteLoop(compData, i + 1)

\* The compressed atlas as a byte array
CodeFontData(styleName, compData) ==
    <<"#define ", TextToUpper(styleName), "_COMPRESSED_DATA_SIZE ">>
    \o FormatInt(Len(compData)) \o <<NL, NL>>
    \o <<"// Font image pixels data compressed (DEFLATE)", NL,
         "// NOTE: Original pixel data simplified to GRAYSCALE", NL,
         "static unsigned char ", styleName, "FontData[", TextToUpper(styleName),
         "_COMPRESSED_DATA_SIZE] = { ">>
    \o CodeByteLoop(compData, 0)
    \o Format02x(compData[Len(compData)]) \o <<" };", NL, NL>>

\* "    { %1.0f, %1.0f, %1.0f , %1.0f },\n"
RECURSIVE CodeFontRecs(_, _)
CodeFontRecs(font, i) ==
    IF i >= font.glyphCount THEN <<>>
    ELSE <<"    { ">> \o FormatInt(font.recs[i + 1].x) \o <<", ">>
         \o FormatInt(font.recs[i + 1].y) \o <<", ">>
         \o FormatInt(font.recs[i + 1].width) \o <<" , ">>
         \o FormatInt(font.recs[i + 1].height) \o <<" },", NL>>
         \o CodeFontRecs(font, i + 1)

\* "    { %i, %i, %i, %i, { 0 }},\n"
RECURSIVE CodeFontChars(_, _)
CodeFontChars(font, i) ==
    IF i >= font.glyphCount THEN <<>>
    ELSE <<"    { ">> \o FormatInt(font.glyphs[i + 1].value) \o <<", ">>
         \o FormatInt(font.glyphs[i + 1].offsetX) \o <<", ">>
         \o FormatInt(font.glyphs[i + 1].offsetY) \o <<", ">>
         \o FormatInt(font.glyphs[i + 1].advanceX) \o <<", { 0 }},", NL>>
         \o CodeFontChars(font, i + 1)

\* if (customFontLoaded): the warning, the atlas bytes, the recs and the chars
CodeFont(style, font, fontPath, styleName, compData) ==
    <<"// WARNING: This style uses a custom font: ", GetFileName(fontPath), " (size: ">>
    \o FormatInt(GuiGetStyle(style, 0, TEXT_SIZE)) \o <<", spacing: ">>
    \o FormatInt(GuiGetStyle(style, 0, TEXT_SPACING)) \o <<")", NL, NL>>
    \o CodeFontData(styleName, compData)
    \o <<"// Font characters rectangles data", NL,
         "static const Rectangle ", styleName, "FontRecs[">>
    \o FormatInt(font.glyphCount) \o <<"] = {", NL>>
    \o CodeFontRecs(font, 0) \o <<"};", NL, NL>>
    \o <<"// Font characters info data", NL,
         "// NOTE: No chars.image data provided", NL,
         "static const GlyphInfo ", styleName, "FontChars[">>
    \o FormatInt(font.glyphCount) \o <<"] = {", NL>>
    \o CodeFontChars(font, 0) \o <<"};", NL, NL>>

\* The custom font loading code of the generated function
CodeLoadFont(style, font, styleName) ==
    <<"    // Custom font loading", NL,
      "    // NOTE: Compressed font image data (DEFLATE), it requires DecompressData() function", NL,
      "    int ", styleName, "FontDataSize = 0;", NL,
      "    unsigned char *data = DecompressData(", styleName, "FontData, ",
      TextToUpper(styleName), "_COMPRESSED_DATA_SIZE, &", styleName, "FontDataSize);", NL,
      "    Image imFont = { data, ">>
    \o FormatInt(font.texture.width) \o <<", ">> \o FormatInt(font.texture.height)
    \o <<", 1, ">> \o FormatInt(font.texture.format) \o <<" };", NL, NL>>
    \o <<"    Font font = { 0 };", NL, "    font.baseSize = ">>
    \o FormatInt(GuiGetStyle(style, 0, TEXT_SIZE)) \o <<";", NL, "    font.glyphCount = ">>
    \o FormatInt(font.glyphCount) \o <<";", NL, NL>>
    \o <<"    // Load texture from image", NL,
         "    font.texture = LoadTextureFromImage(imFont);", NL, NL,
         "    // Copy char recs data from global fontRecs", NL,
         "    // NOTE: Required to avoid issues if trying to free font", NL,
         "    font.recs = (Rectangle *)malloc(font.glyphCount*sizeof(Rectangle));", NL,
         "    memcpy(font.recs, ", styleName, "FontRecs, font.glyphCount*sizeof(Rectangle));", NL, NL,
         "    // Copy font char info data from global fontChars", NL,
         "    // NOTE: Required to avoid issues if trying to free font", NL,
         "    font.glyphs = (GlyphInfo *)malloc(font.glyphCount*sizeof(GlyphInfo));", NL,
         "    memcpy(font.glyphs, ", styleName, "FontChars, font.glyphCount*sizeof(GlyphInfo));", NL, NL,
         "    GuiSetFont(font);", NL, NL,
         "    // TODO: Setup a white rectangle on the font to be used on shapes drawing,", NL,
         "    // this way we make sure all gui can be drawn on a single pass because no texture change is required", NL,
         "    // NOTE: Setting up this rectangle is a manual process (for the moment)", NL,
         "    //Rectangle whiteChar = { 0, 0, 0, 0 };", NL,
         "    //SetShapesTexture(font.texture, whiteChar);", NL, NL>>

\* The generated style loading function
CodeLoadFunction(style, fontLoaded, font, styleName) ==
    <<"// Style loading function: ", styleName, NL,
      "static void GuiLoadStyle", TextToPascal(styleName), "(void)", NL, "{", NL,
      "    // Load style properties provided", NL,
      "    // NOTE: Default properties are propagated", NL,
      "    for (int i = 0; i < ", TextToUpper(styleName), "_STYLE_PROPS_COUNT; i++)", NL,
      "    {", NL,
      "        GuiSetStyle(", styleName, "StyleProps[i].controlId, ", styleName,
      "StyleProps[i].propertyId, ", styleName, "StyleProps[i].propertyValue);", NL,
      "    }", NL, NL>>
    \o (IF fontLoaded THEN CodeLoadFont(style, font, styleName) ELSE <<>>)
    \o <<"    //-----------------------------------------------------------------", NL, NL,
         "    // TODO: Custom user style setup: Set specific properties here (if required)", NL,
         "    // i.e. Controls specific BORDER_WIDTH, TEXT_PADDING, TEXT_ALIGNMENT", NL,
         "}", NL>>

\* The fragments ExportStyleAsCode writes between fopen and fclose
ExportStyleAsCode(style, backup, fontLoaded, font, fontPath, styleName, compData) ==
    CodeBanner(styleName)
    \o CodeStyleProps(style, backup, styleName)
    \o (IF fontLoaded THEN CodeFont(style, font, fontPath, styleName, compData) ELSE <<>>)
    \o CodeLoadFunction(style, fontLoaded, font, styleName)

\* --------------------------------------- file handles of the two writers
\* SaveStyleResult that sets success without testing what fopen returned
SaveStyleResultUnchecked(format, canOpen) == format \in {STYLE_BINARY, STYLE_TEXT}

\* The value SaveStyle returns: success is set after fclose, in the branch of
\* the format, inside "if (rgsFile != NULL)"
SaveStyleResult(format, canOpen) ==
    \/ format = STYLE_BINARY /\ canOpen
    \/ format = STYLE_TEXT /\ canOpen

\* SaveStyleFileOps without the fclose of the binary branch
SaveStyleFileOpsNoClose(format, canOpen) ==
    (IF format = STYLE_BINARY
     THEN (IF canOpen THEN <<"fopen">> ELSE <<"fopen-null">>)
     ELSE <<>>)
    \o (IF format = STYLE_TEXT
        THEN (IF canOpen THEN <<"fopen", "fclose">> ELSE <<"fopen-null">>)
        ELSE <<>>)

\* The fopen and fclose calls of SaveStyle in program order: "fopen" returned
\* a handle, "fopen-null" returned NULL
SaveStyleFileOps(format, canOpen) ==
    (IF format = STYLE_BINARY
     THEN (IF canOpen THEN <<"fopen", "fclose">> ELSE <<"fopen-null">>)
     ELSE <<>>)
    \o (IF format = STYLE_TEXT
        THEN (IF canOpen THEN <<"fopen", "fclose">> ELSE <<"fopen-null">>)
        ELSE <<>>)

\* The fopen and fclose calls of ExportStyleAsCode
ExportStyleAsCodeFileOps(canOpen) ==
    IF canOpen THEN <<"fopen", "fclose">> ELSE <<"fopen-null">>

\* ---------------------------------------------- GenImageStyleControlsTable()
LABEL == 1
SLIDER == 4
TEXT_ALIGNMENT == 14
SLIDER_WIDTH == RAYGUI_MAX_PROPS_BASE
GUI_TEXT_ALIGN_CENTER == 1
TABLE_CONTROLS_COUNT == 12

\* The loop over the table's controls: each iteration saves LABEL's
\* TEXT_ALIGNMENT, centers it to draw the control's name, and sets it back
RECURSIVE TableControlsLoop(_, _)
TableControlsLoop(style, i) ==
    IF i >= TABLE_CONTROLS_COUNT THEN style
    ELSE LET labelTextAlignment == GuiGetStyle(style, LABEL, TEXT_ALIGNMENT)
             centered == GuiSetStyle(style, LABEL, TEXT_ALIGNMENT, GUI_TEXT_ALIGN_CENTER)
         IN  TableControlsLoop(GuiSetStyle(centered, LABEL, TEXT_ALIGNMENT, labelTextAlignment),
                               i + 1)

\* GenImageStyleControlsTable that leaves SLIDER_WIDTH at 10
GenImageStyleControlsTableNoRestore(style) ==
    TableControlsLoop(GuiSetStyle(style, SLIDER, SLIDER_WIDTH, 10), 0)

\* The store GenImageStyleControlsTable leaves: SLIDER_WIDTH is saved, set to
\* 10 for the rendering, and set back after EndTextureMode
GenImageStyleControlsTable(style) ==
    LET sliderWidth == GuiGetStyle(style, SLIDER, SLIDER_WIDTH)
        rendered == TableControlsLoop(GuiSetStyle(style, SLIDER, SLIDER_WIDTH, 10), 0)
    IN  GuiSetStyle(rendered, SLIDER, SLIDER_WIDTH, sliderWidth)

\* =================================================================== state
VARIABLES
    guiStyle,           \* raygui style table, read by GuiGetStyle
    guiFont,            \* raygui font, read by GuiGetFont
    styleBackup,        \* baseline the changes are counted against
    customFont,         \* static Font customFont
    customFontLoaded,   \* static bool customFontLoaded
    fontFilePath,       \* static char fontFilePath[512]
    fontFileProvided,   \* static bool fontFileProvided
    genFontSizeValue,   \* main: int genFontSizeValue
    fontSpacingValue,   \* main: int fontSpacingValue
    rgsFile,            \* bytes of the file the last SaveStyle(STYLE_BINARY) wrote
    txtFile,            \* fragments of the text file the last export wrote
    success,            \* what the last SaveStyle returned
    fileOps,            \* the fopen and fclose calls of the last save or export
    lastOp,             \* the kind of the operation that ran last
    \* main()'s window state
    inFileName,                 \* char inFileName[512]
    styleNameText,              \* char styleNameText[32]
    changedPropCounter,         \* int changedPropCounter
    saveChangesRequired,        \* bool saveChangesRequired
    currentSelectedControl,     \* int currentSelectedControl
    currentSelectedProperty,    \* int currentSelectedProperty
    previousSelectedControl,    \* int previousSelectedControl
    previousSelectedProperty,   \* int previousSelectedProperty
    colorPickerValue,           \* Color colorPickerValue
    propertyValue,              \* int propertyValue
    textAlignmentActive,        \* int textAlignmentActive
    exportFormatActive,         \* int exportFormatActive
    windowAboutActive,          \* windowAboutState.windowActive
    exitWindow,                 \* bool exitWindow
    windowExitActive,           \* bool windowExitActive
    showLoadFileDialog,         \* bool showLoadFileDialog
    showLoadFontFileDialog,     \* bool showLoadFontFileDialog
    showSaveFileDialog,         \* bool showSaveFileDialog
    showExportFileDialog,       \* bool showExportFileDialog
    fileName,                   \* the fileName the frame's save or export was called
                                \* with, in pieces; <<>> when the frame called none
    \* ProcessCommandLine()
    argv,                       \* char *argv[], argv[0] left out
    argIndex,                   \* the loop's int i
    showUsageInfo,              \* bool showUsageInfo
    cmdInFileName,              \* ProcessCommandLine's char inFileName[256]
    cmdOutFileName,             \* ProcessCommandLine's char outFileName[256]
    outputFormat,               \* int outputFormat
    outputs,                    \* the files the process has written: <<kind, fileName>>
    exitCode                    \* what main() returned, -1 while it runs

storeVars == <<guiStyle, guiFont, styleBackup, customFont, customFontLoaded, fontFilePath,
               fontFileProvided, genFontSizeValue, fontSpacingValue, rgsFile, txtFile, success,
               fileOps, lastOp>>

selectionVars == <<currentSelectedControl, currentSelectedProperty, previousSelectedControl,
                   previousSelectedProperty>>
editorVars == <<colorPickerValue, propertyValue, textAlignmentActive>>
dialogVars == <<showLoadFileDialog, showLoadFontFileDialog, showSaveFileDialog,
                showExportFileDialog>>
windowVars == <<inFileName, styleNameText, changedPropCounter, saveChangesRequired,
                selectionVars, editorVars, exportFormatActive, windowAboutActive, exitWindow,
                windowExitActive, dialogVars, fileName>>

commandLineVars == <<argv, argIndex, showUsageInfo, cmdInFileName, cmdOutFileName,
                     outputFormat, outputs, exitCode>>

vars == <<storeVars, windowVars, commandLineVars>>

fontVars == <<guiFont, customFont, customFontLoaded, fontFilePath, fontFileProvided>>
spinnerVars == <<genFontSizeValue, fontSpacingValue>>
fileVars == <<rgsFile, txtFile, success, fileOps>>

NoFile == <<>>

\* Pairs whose value differs from the baseline
ChangedCells(style, backup) == {k \in Cells : style[k] # backup[k]}

\* Values the two font spinners are set to: "Size:" 8..32, "Spacing:" 0..8
FontSizes == {10, 12}
FontSpacings == {1, 2}

\* Every frame: GuiSetStyle(DEFAULT, TEXT_SIZE, genFontSizeValue);
\* GuiSetStyle(DEFAULT, TEXT_SPACING, fontSpacingValue)
FrameLogic(style, size, spacing) ==
    GuiSetStyle(GuiSetStyle(style, 0, TEXT_SIZE, size), 0, TEXT_SPACING, spacing)

\* The one argument main() is started with in GUI mode: a style file, or
\* "none" for no argument
StartFiles == {"none"} \cup {f.path : f \in StyleFiles}

\* GetColor(hexValue): the four channels of 0xRRGGBBAA
GetColor(hexValue) ==
    [r |-> (hexValue \div Pow2(24)) % 256, g |-> (hexValue \div Pow2(16)) % 256,
     b |-> (hexValue \div Pow2(8)) % 256, a |-> hexValue % 256]

\* ColorToInt(color): the four channels as one 32-bit int, negative when the
\* top bit of r is set
ColorToInt(color) ==
    (IF color.r >= 128 THEN color.r - 256 ELSE color.r)*Pow2(24)
        + color.g*Pow2(16) + color.b*Pow2(8) + color.a

\* RED of raylib
RED == [r |-> 230, g |-> 41, b |-> 55, a |-> 255]

\* main()'s local variables as they are declared, `start` being argv[1]
WindowInit(start) ==
    /\ inFileName = (IF start = "none" THEN "" ELSE start)
    /\ styleNameText = "default"
    /\ changedPropCounter = 0
    /\ saveChangesRequired = FALSE
    /\ currentSelectedControl = 0 - 1
    /\ currentSelectedProperty = 0 - 1
    /\ previousSelectedControl = 0 - 1
    /\ previousSelectedProperty = 0 - 1
    /\ colorPickerValue = RED
    /\ propertyValue = 0
    /\ textAlignmentActive = 0
    /\ exportFormatActive = 0
    /\ windowAboutActive = FALSE
    /\ exitWindow = FALSE
    /\ windowExitActive = FALSE
    /\ showLoadFileDialog = FALSE
    /\ showLoadFontFileDialog = FALSE
    /\ showSaveFileDialog = FALSE
    /\ showExportFileDialog = FALSE
    /\ fileName = <<>>

\* GUI mode: ProcessCommandLine() is not called
CommandLineOff ==
    /\ argv = <<>>
    /\ argIndex = 0
    /\ showUsageInfo = FALSE
    /\ cmdInFileName = ""
    /\ cmdOutFileName = ""
    /\ outputFormat = STYLE_BINARY
    /\ outputs = <<>>
    /\ exitCode = 0 - 1

\* main() up to the main loop: the style given on the command line, or the
\* default style; then "Keep a backup for default light style"
MainInit(start) ==
    /\ IF start # "none"
        THEN LET file == CHOOSE f \in StyleFiles : f.path = start
                 loaded == GuiLoadStyle(file.bytes, DefaultStyle, FontDefault)
             IN  /\ guiStyle = loaded.style
                 /\ guiFont = loaded.font
                 /\ customFont = NoFont
                 /\ lastOp = IF loaded.error = "none" THEN "start" ELSE "start-failed"
        ELSE /\ guiStyle = DefaultStyle
             /\ guiFont = FontDefault
             /\ customFont = FontDefault
             /\ lastOp = "start"
    /\ styleBackup = guiStyle
    /\ customFontLoaded = FALSE
    /\ fontFilePath = ""
    /\ fontFileProvided = FALSE
    /\ genFontSizeValue = 10
    /\ fontSpacingValue = GuiGetStyle(guiStyle, 0, TEXT_SPACING)
    /\ rgsFile = NoFile
    /\ txtFile = NoFile
    /\ success = FALSE
    /\ fileOps = <<>>

\* Spec follows the store and the files through the operations of the
\* editor.  main()'s window variables stay where they are declared: no
\* action of Spec reads them, and MainLoopSpec and EditorSpec follow them
\* frame by frame.
Init ==
    /\ \E start \in StartFiles : MainInit(start)
    /\ WindowInit("none")
    /\ CommandLineOff

\* A frame in which nothing but the frame logic changes the store
Frame ==
    /\ guiStyle # FrameLogic(guiStyle, genFontSizeValue, fontSpacingValue)
    /\ guiStyle' = FrameLogic(guiStyle, genFontSizeValue, fontSpacingValue)
    /\ rgsFile' = NoFile /\ txtFile' = NoFile /\ success' = FALSE /\ fileOps' = <<>>
    /\ lastOp' = "edit"
    /\ UNCHANGED <<styleBackup, fontVars, spinnerVars>>

\* The controls the user selects in the controls list, and the base
\* properties the user selects in the properties list
SelectedControls == {0, 1, 2}
SelectedProps == {0}

\* The pairs the property editor writes: the base properties of the selected
\* control, and of DEFAULT also LINE_COLOR and BACKGROUND_COLOR
Editable(control, property) ==
    /\ control \in SelectedControls
    /\ \/ property < RAYGUI_MAX_PROPS_BASE /\ property \in SelectedProps
       \/ control = 0 /\ property \in {LINE_COLOR, BACKGROUND_COLOR}

\* "Set selected value for current selected property"
EditProperty(control, property, value) ==
    LET style == GuiSetStyle(FrameLogic(guiStyle, genFontSizeValue, fontSpacingValue),
                             control, property, value)
    IN  /\ Editable(control, property)
        /\ GuiGetStyle(guiStyle, control, property) # value
        /\ Cardinality(ChangedCells(style, styleBackup)) <= MaxChanged
        /\ guiStyle' = style
        /\ rgsFile' = NoFile /\ txtFile' = NoFile /\ success' = FALSE /\ fileOps' = <<>>
        /\ lastOp' = "edit"
        /\ UNCHANGED <<styleBackup, fontVars, spinnerVars>>

\* GuiSpinner "Size:", and in the next frame "Reload font to new size if
\* required" and the frame logic
SetFontSize(size) ==
    LET style == FrameLogic(guiStyle, size, fontSpacingValue)
        reload == fontFileProvided /\ fontFilePath # ""
        font == LoadFontEx(CHOOSE f \in FontFiles : f.path = fontFilePath, size)
    IN  /\ size # genFontSizeValue
        /\ Cardinality(ChangedCells(style, styleBackup)) <= MaxChanged
        /\ genFontSizeValue' = size
        /\ guiStyle' = style
        /\ customFont' = IF reload THEN font ELSE customFont
        /\ guiFont' = IF reload THEN font ELSE guiFont
        /\ rgsFile' = NoFile /\ txtFile' = NoFile /\ success' = FALSE /\ fileOps' = <<>>
        /\ lastOp' = "edit"
        /\ UNCHANGED <<styleBackup, customFontLoaded, fontFilePath, fontFileProvided,
                       fontSpacingValue>>

\* GuiSpinner "Spacing:", and the frame logic of the next frame
SetFontSpacing(spacing) ==
    LET style == FrameLogic(guiStyle, genFontSizeValue, spacing)
    IN  /\ spacing # fontSpacingValue
        /\ Cardinality(ChangedCells(style, styleBackup)) <= MaxChanged
        /\ fontSpacingValue' = spacing
        /\ guiStyle' = style
        /\ rgsFile' = NoFile /\ txtFile' = NoFile /\ success' = FALSE /\ fileOps' = <<>>
        /\ lastOp' = "edit"
        /\ UNCHANGED <<styleBackup, fontVars, genFontSizeValue>>

\* Dropped files logic, a .rgs file
DropStyleFile(file) ==
    LET loaded == GuiLoadStyle(file.bytes, DefaultStyle, FontDefault)
        size == GuiGetStyle(loaded.style, 0, TEXT_SIZE)
        spacing == GuiGetStyle(loaded.style, 0, TEXT_SPACING)
    IN  /\ guiStyle' = FrameLogic(loaded.style, size, spacing)
        /\ guiFont' = loaded.font
        /\ genFontSizeValue' = size
        /\ fontSpacingValue' = spacing
        /\ customFont' = loaded.font
        /\ fontFilePath' = ""
        /\ fontFileProvided' = FALSE
        /\ customFontLoaded' = TRUE
        /\ rgsFile' = NoFile /\ txtFile' = NoFile /\ success' = FALSE /\ fileOps' = <<>>
        /\ lastOp' = IF loaded.error = "none" THEN "drop-style" ELSE "drop-style-failed"
        /\ UNCHANGED styleBackup

\* Dropped files logic, a .ttf or .otf file
DropFontFile(file) ==
    LET font == LoadFontEx(file, genFontSizeValue)
    IN  /\ customFont' = font
        /\ IF font.texture.id > 0
           THEN /\ guiFont' = font
                /\ fontFilePath' = file.path
                /\ fontFileProvided' = TRUE
                /\ customFontLoaded' = TRUE
           ELSE UNCHANGED <<guiFont, fontFilePath, fontFileProvided, customFontLoaded>>
        /\ guiStyle' = FrameLogic(guiStyle, genFontSizeValue, fontSpacingValue)
        /\ rgsFile' = NoFile /\ txtFile' = NoFile /\ success' = FALSE /\ fileOps' = <<>>
        /\ lastOp' = "font"
        /\ UNCHANGED <<styleBackup, spinnerVars>>

\* "Reset to default light style" (Ctrl+R)
ResetDefault ==
    /\ guiStyle' = FrameLogic(DefaultStyle, GuiGetStyle(DefaultStyle, 0, TEXT_SIZE),
                              GuiGetStyle(DefaultStyle, 0, TEXT_SPACING))
    /\ guiFont' = FontDefault
    /\ fontFilePath' = ""
    /\ customFontLoaded' = FALSE
    /\ genFontSizeValue' = GuiGetStyle(DefaultStyle, 0, TEXT_SIZE)
    /\ fontSpacingValue' = GuiGetStyle(DefaultStyle, 0, TEXT_SPACING)
    /\ rgsFile' = NoFile /\ txtFile' = NoFile /\ success' = FALSE /\ fileOps' = <<>>
    /\ lastOp' = "reset"
    /\ UNCHANGED <<styleBackup, customFont, fontFileProvided>>

\* Load File Dialog, result == 1: drawn after the frame logic has run
LoadStyleDialog(file) ==
    LET loaded == GuiLoadStyle(file.bytes,
                               FrameLogic(guiStyle, genFontSizeValue, fontSpacingValue),
                               guiFont)
    IN  /\ guiStyle' = loaded.style
        /\ guiFont' = loaded.font
        /\ customFont' = loaded.font
        /\ fontFilePath' = ""
        /\ fontFileProvided' = FALSE
        /\ customFontLoaded' = TRUE
        /\ rgsFile' = NoFile /\ txtFile' = NoFile /\ success' = FALSE /\ fileOps' = <<>>
        /\ lastOp' = IF loaded.error = "none" THEN "load-style" ELSE "load-style-failed"
        /\ UNCHANGED <<styleBackup, spinnerVars>>

\* Load Font File Dialog, result == 1
LoadFontDialog(file) ==
    LET tempFont == LoadFontEx(file, genFontSizeValue)
    IN  /\ IF tempFont.texture.id > 0
           THEN /\ customFont' = tempFont
                /\ guiFont' = tempFont
                /\ fontFilePath' = file.path
                /\ fontFileProvided' = TRUE
                /\ customFontLoaded' = TRUE
           ELSE UNCHANGED fontVars
        /\ guiStyle' = FrameLogic(guiStyle, genFontSizeValue, fontSpacingValue)
        /\ rgsFile' = NoFile /\ txtFile' = NoFile /\ success' = FALSE /\ fileOps' = <<>>
        /\ lastOp' = "font"
        /\ UNCHANGED <<styleBackup, spinnerVars>>

\* SaveStyle(fileName, format), called after the frame logic.  The save and
\* export dialogs pass STYLE_BINARY; format ranges over GuiStyleFileType, the
\* function writing nothing for a format it has no branch for.  fopen may fail.
SaveStyle(format, canOpen) ==
    LET style == FrameLogic(guiStyle, genFontSizeValue, fontSpacingValue)
        compSize == CompressedSize(customFont)
    IN  /\ guiStyle' = style
        /\ rgsFile' = IF format = STYLE_BINARY /\ canOpen
                      THEN SaveStyleBinary(style, styleBackup, customFontLoaded, customFont,
                                           compSize)
                      ELSE NoFile
        /\ txtFile' = IF format = STYLE_TEXT /\ canOpen
                      THEN SaveStyleText(style, styleBackup, customFontLoaded, fontFilePath)
                      ELSE NoFile
        /\ success' = SaveStyleResult(format, canOpen)
        /\ fileOps' = SaveStyleFileOps(format, canOpen)
        /\ lastOp' = IF format = STYLE_BINARY /\ canOpen THEN "save-binary"
                     ELSE IF format = STYLE_TEXT /\ canOpen THEN "save-text"
                     ELSE "save-failed"
        /\ UNCHANGED <<styleBackup, fontVars, spinnerVars>>

\* ExportStyleAsCode(fileName, styleName) out of the export dialog
ExportCode(styleName, canOpen) ==
    LET style == FrameLogic(guiStyle, genFontSizeValue, fontSpacingValue)
        compSize == CompressedSize(customFont)
    IN  /\ guiStyle' = style
        /\ txtFile' = IF canOpen
                      THEN ExportStyleAsCode(style, styleBackup, customFontLoaded, customFont,
                                             fontFilePath, styleName, CompressData(compSize))
                      ELSE NoFile
        /\ rgsFile' = NoFile
        /\ success' = FALSE
        /\ fileOps' = ExportStyleAsCodeFileOps(canOpen)
        /\ lastOp' = IF canOpen THEN "export-code" ELSE "save-failed"
        /\ UNCHANGED <<styleBackup, fontVars, spinnerVars>>

\* Export dialog, STYLE_TABLE_IMAGE: GenImageStyleControlsTable(styleNameText)
\* and raylib's ExportImage, after the frame logic.  The "view style table"
\* toggle makes the same call.
ExportTableImage ==
    LET style == FrameLogic(guiStyle, genFontSizeValue, fontSpacingValue)
    IN  /\ guiStyle' = GenImageStyleControlsTable(style)
        /\ rgsFile' = NoFile /\ txtFile' = NoFile /\ success' = FALSE /\ fileOps' = <<>>
        /\ lastOp' = "export-image"
        /\ UNCHANGED <<styleBackup, fontVars, spinnerVars>>


untracked == <<windowVars, commandLineVars>>

Next ==
    \/ Frame /\ UNCHANGED untracked
    \/ \E control \in SelectedControls, property \in Props, value \in StyleValues :
          EditProperty(control, property, value) /\ UNCHANGED untracked
    \/ \E size \in FontSizes : SetFontSize(size) /\ UNCHANGED untracked
    \/ \E spacing \in FontSpacings : SetFontSpacing(spacing) /\ UNCHANGED untracked
    \/ \E file \in StyleFiles : DropStyleFile(file) /\ UNCHANGED untracked
    \/ \E file \in FontFiles : DropFontFile(file) /\ UNCHANGED untracked
    \/ ResetDefault /\ UNCHANGED untracked
    \/ \E file \in StyleFiles : LoadStyleDialog(file) /\ UNCHANGED untracked
    \/ \E file \in FontFiles : LoadFontDialog(file) /\ UNCHANGED untracked
    \/ \E format \in {STYLE_BINARY, STYLE_AS_CODE, STYLE_TABLE_IMAGE, STYLE_TEXT},
          canOpen \in BOOLEAN :
          SaveStyle(format, canOpen) /\ UNCHANGED untracked
    \/ \E styleName \in StyleNames, canOpen \in BOOLEAN :
          ExportCode(styleName, canOpen) /\ UNCHANGED untracked
    \/ ExportTableImage /\ UNCHANGED untracked

Spec == Init /\ [][Next]_vars

\* ============================================== the main loop, frame by frame
\* A frame of "while (!exitWindow)" is one step: the update part and the draw
\* part run on the state the frame starts with and on the one thing the user
\* does in that frame, the input [event, arg, canOpen].  The operators below
\* follow the loop body in program order, each taking the state the part
\* before it left.

\* IsFileExtension(fileName, ext) for the files on disk and the names given
\* to --output
IsFileExtension(path, ext) ==
    \/ ext = ".rgs" /\ path \in {f.path : f \in StyleFiles}
    \/ ext = ".ttf" /\ path \in {f.path : f \in FontFiles}
    \/ ext = ".png" /\ path = "table.png"
    \/ ext = ".h" /\ path = "style.h"

StyleFileAt(path) == CHOOSE f \in StyleFiles : f.path = path
FontFileAt(path) == CHOOSE f \in FontFiles : f.path = path

\* GetFileNameWithoutExt(filePath)
GetFileNameWithoutExt(path) ==
    CASE path = "sample.rgs" -> "sample"
      [] path = "font.rgs" -> "font"
      [] path = "bad.rgs" -> "bad"
      [] path = "cut.rgs" -> "cut"
      [] OTHER -> path

\* The state of main() and of the store, as one record
Current ==
    [guiStyle |-> guiStyle, guiFont |-> guiFont, styleBackup |-> styleBackup,
     customFont |-> customFont, customFontLoaded |-> customFontLoaded,
     fontFilePath |-> fontFilePath, fontFileProvided |-> fontFileProvided,
     genFontSizeValue |-> genFontSizeValue, fontSpacingValue |-> fontSpacingValue,
     rgsFile |-> rgsFile, txtFile |-> txtFile, success |-> success, fileOps |-> fileOps,
     fileName |-> fileName,
     inFileName |-> inFileName, styleNameText |-> styleNameText,
     changedPropCounter |-> changedPropCounter, saveChangesRequired |-> saveChangesRequired,
     currentSelectedControl |-> currentSelectedControl,
     currentSelectedProperty |-> currentSelectedProperty,
     previousSelectedControl |-> previousSelectedControl,
     previousSelectedProperty |-> previousSelectedProperty,
     colorPickerValue |-> colorPickerValue, propertyValue |-> propertyValue,
     textAlignmentActive |-> textAlignmentActive, exportFormatActive |-> exportFormatActive,
     windowAboutActive |-> windowAboutActive, exitWindow |-> exitWindow,
     windowExitActive |-> windowExitActive, showLoadFileDialog |-> showLoadFileDialog,
     showLoadFontFileDialog |-> showLoadFontFileDialog,
     showSaveFileDialog |-> showSaveFileDialog,
     showExportFileDialog |-> showExportFileDialog]

\* The state a frame starts with: nothing is written yet
FrameStart(s) ==
    [s EXCEPT !.rgsFile = NoFile, !.txtFile = NoFile, !.success = FALSE, !.fileOps = <<>>,
              !.fileName = <<>>]

\* SaveStyle(name, STYLE_BINARY), called on the state s: every save of the
\* main loop is a binary one
CallSaveStyle(s, name, canOpen) ==
    [s EXCEPT !.rgsFile = IF canOpen
                          THEN SaveStyleBinary(s.guiStyle, s.styleBackup, s.customFontLoaded,
                                               s.customFont, CompressedSize(s.customFont))
                          ELSE NoFile,
              !.success = SaveStyleResult(STYLE_BINARY, canOpen),
              !.fileOps = SaveStyleFileOps(STYLE_BINARY, canOpen),
              !.fileName = name]

\* ExportStyleAsCode(name, styleName), called on the state s
CallExportStyleAsCode(s, name, styleName, canOpen) ==
    [s EXCEPT !.txtFile = IF canOpen
                          THEN ExportStyleAsCode(s.guiStyle, s.styleBackup,
                                                 s.customFontLoaded, s.customFont,
                                                 s.fontFilePath, styleName,
                                                 CompressData(CompressedSize(s.customFont)))
                          ELSE NoFile,
              !.fileOps = ExportStyleAsCodeFileOps(canOpen),
              !.fileName = name]

\* The dropped .rgs file is loaded: `loaded` is what GuiLoadStyleDefault()
\* and GuiLoadStyle(droppedFiles[0]) leave
StyleDropped(s, path, loaded) ==
    [s EXCEPT !.guiStyle = loaded.style,
              !.guiFont = loaded.font,
              !.inFileName = path,
              !.styleNameText = GetFileNameWithoutExt(path),
              !.genFontSizeValue = GuiGetStyle(loaded.style, 0, TEXT_SIZE),
              !.fontSpacingValue = GuiGetStyle(loaded.style, 0, TEXT_SPACING),
              !.customFont = loaded.font,
              !.fontFilePath = "",
              !.fontFileProvided = FALSE,
              !.customFontLoaded = TRUE]

\* The font file at `path` is loaded: `font` is what LoadFontEx() returned
FontLoaded(s, path, font) ==
    IF font.texture.id > 0
    THEN [s EXCEPT !.customFont = font,
                   !.guiFont = font,
                   !.fontFilePath = path,
                   !.fontFileProvided = TRUE,
                   !.customFontLoaded = TRUE]
    ELSE s

\* "Dropped files logic"
DroppedFilesLogic(s, in) ==
    IF in.event # "drop" THEN s
    ELSE IF IsFileExtension(in.arg, ".rgs")
    THEN CHOOSE dropped \in
             {[StyleDropped(s, in.arg, loaded) EXCEPT !.currentSelectedControl = 0 - 1] :
                  loaded \in {GuiLoadStyle(StyleFileAt(in.arg).bytes, DefaultStyle,
                                           FontDefault)}} : TRUE
    ELSE IF IsFileExtension(in.arg, ".ttf")
    THEN CHOOSE dropped \in
             {[(IF font.texture.id > 0 THEN FontLoaded(s, in.arg, font)
                ELSE [s EXCEPT !.customFont = font])
                  EXCEPT !.currentSelectedControl = 0 - 1] :
                  font \in {LoadFontEx(FontFileAt(in.arg), s.genFontSizeValue)}} : TRUE
    ELSE [s EXCEPT !.currentSelectedControl = 0 - 1]

\* "Keyboard shortcuts"
KeyboardShortcuts(s, in) ==
    CASE in.event = "CTRL_O" -> [s EXCEPT !.showLoadFileDialog = TRUE]
      [] in.event = "CTRL_S" ->
            IF s.inFileName = ""
            THEN [s EXCEPT !.exportFormatActive = STYLE_BINARY, !.showSaveFileDialog = TRUE]
            ELSE [CallSaveStyle(s, <<s.inFileName>>, in.canOpen)
                     EXCEPT !.saveChangesRequired = FALSE]
      [] in.event = "CTRL_E" -> [s EXCEPT !.showExportFileDialog = TRUE]
      [] in.event = "F1" -> [s EXCEPT !.windowAboutActive = TRUE]
      [] in.event = "ESC" ->
            IF s.windowAboutActive THEN [s EXCEPT !.windowAboutActive = FALSE]
            ELSE IF s.changedPropCounter > 0
            THEN [s EXCEPT !.windowExitActive = ~s.windowExitActive]
            ELSE [s EXCEPT !.exitWindow = TRUE]
      [] in.event = "CTRL_R" ->
            [s EXCEPT !.currentSelectedControl = 0 - 1,
                      !.currentSelectedProperty = 0 - 1,
                      !.guiStyle = DefaultStyle,
                      !.guiFont = FontDefault,
                      !.inFileName = "",
                      !.styleNameText = "default",
                      !.fontFilePath = "",
                      !.customFontLoaded = FALSE,
                      !.genFontSizeValue = GuiGetStyle(DefaultStyle, 0, TEXT_SIZE),
                      !.fontSpacingValue = GuiGetStyle(DefaultStyle, 0, TEXT_SPACING)]
      [] OTHER -> s

\* "Basic program flow logic".  "Reload font to new size if required" does
\* nothing in these frames: the size spinner is left alone, so
\* prevGenFontSize = genFontSizeValue wherever fontFilePath is not empty.
ProgramFlowLogic(s, in) ==
    CHOOSE flow \in
        {[s EXCEPT !.exitWindow = (in.event = "close") \/ s.exitWindow,
                   !.changedPropCounter = counter,
                   !.saveChangesRequired = (counter > 0) \/ s.saveChangesRequired,
                   !.guiStyle = FrameLogic(s.guiStyle, s.genFontSizeValue,
                                           s.fontSpacingValue)] :
             counter \in {StyleChangesCounter(s.guiStyle, s.styleBackup)}} : TRUE

\* raygui's base properties by number, and the DEFAULT control
DEFAULT == 0
TEXT_COLOR_DISABLED == 11
BORDER_WIDTH == 12
TEXT_PADDING == 13

\* The entries of the properties list: guiPropsDefaultText for DEFAULT,
\* RAYGUI_MAX_PROPS_BASE - 1 entries of guiPropsText for the other controls
PropsListCount(control) ==
    IF control # DEFAULT THEN RAYGUI_MAX_PROPS_BASE - 1 ELSE 14

\* "Obtain property value": the editor's widgets take the value of the
\* selected property
ObtainProperty(s) ==
    LET c == s.currentSelectedControl
        p == s.currentSelectedProperty
    IN  IF c = DEFAULT
        THEN (IF p <= TEXT_COLOR_DISABLED
              THEN [s EXCEPT !.colorPickerValue = GetColor(GuiGetStyle(s.guiStyle, c, p))]
              ELSE IF p = 13
              THEN [s EXCEPT !.colorPickerValue =
                                 GetColor(GuiGetStyle(s.guiStyle, c, LINE_COLOR))]
              ELSE IF p = 12
              THEN [s EXCEPT !.colorPickerValue =
                                 GetColor(GuiGetStyle(s.guiStyle, c, BACKGROUND_COLOR))]
              ELSE s)
        ELSE (IF p <= TEXT_COLOR_DISABLED
              THEN [s EXCEPT !.colorPickerValue = GetColor(GuiGetStyle(s.guiStyle, c, p))]
              ELSE IF p = BORDER_WIDTH \/ p = TEXT_PADDING
              THEN [s EXCEPT !.propertyValue = GuiGetStyle(s.guiStyle, c, p)]
              ELSE IF p = TEXT_ALIGNMENT
              THEN [s EXCEPT !.textAlignmentActive = GuiGetStyle(s.guiStyle, c, p)]
              ELSE s)

\* The write with the two extended colours in the enum's order: entry 12 to
\* LINE_COLOR, entry 13 to BACKGROUND_COLOR
SetPropertyEnumOrder(s) ==
    LET c == s.currentSelectedControl
        p == s.currentSelectedProperty
    IN  IF c = DEFAULT
        THEN (IF p <= TEXT_COLOR_DISABLED
              THEN [s EXCEPT !.guiStyle =
                        GuiSetStyle(s.guiStyle, c, p, ColorToInt(s.colorPickerValue))]
              ELSE IF p = 12
              THEN [s EXCEPT !.guiStyle =
                        GuiSetStyle(s.guiStyle, c, LINE_COLOR, ColorToInt(s.colorPickerValue))]
              ELSE IF p = 13
              THEN [s EXCEPT !.guiStyle =
                        GuiSetStyle(s.guiStyle, c, BACKGROUND_COLOR,
                                    ColorToInt(s.colorPickerValue))]
              ELSE s)
        ELSE (IF p <= TEXT_COLOR_DISABLED
              THEN [s EXCEPT !.guiStyle =
                        GuiSetStyle(s.guiStyle, c, p, ColorToInt(s.colorPickerValue))]
              ELSE IF p = BORDER_WIDTH \/ p = TEXT_PADDING
              THEN [s EXCEPT !.guiStyle = GuiSetStyle(s.guiStyle, c, p, s.propertyValue)]
              ELSE IF p = TEXT_ALIGNMENT
              THEN [s EXCEPT !.guiStyle = GuiSetStyle(s.guiStyle, c, p, s.textAlignmentActive)]
              ELSE s)

\* "Set selected value for current selected property": the store takes the
\* value of the widget that edits the selected property
SetProperty(s) ==
    LET c == s.currentSelectedControl
        p == s.currentSelectedProperty
    IN  IF c = DEFAULT
        THEN (IF p <= TEXT_COLOR_DISABLED
              THEN [s EXCEPT !.guiStyle =
                        GuiSetStyle(s.guiStyle, c, p, ColorToInt(s.colorPickerValue))]
              ELSE IF p = 13
              THEN [s EXCEPT !.guiStyle =
                        GuiSetStyle(s.guiStyle, c, LINE_COLOR, ColorToInt(s.colorPickerValue))]
              ELSE IF p = 12
              THEN [s EXCEPT !.guiStyle =
                        GuiSetStyle(s.guiStyle, c, BACKGROUND_COLOR,
                                    ColorToInt(s.colorPickerValue))]
              ELSE s)
        ELSE (IF p <= TEXT_COLOR_DISABLED
              THEN [s EXCEPT !.guiStyle =
                        GuiSetStyle(s.guiStyle, c, p, ColorToInt(s.colorPickerValue))]
              ELSE IF p = BORDER_WIDTH \/ p = TEXT_PADDING
              THEN [s EXCEPT !.guiStyle = GuiSetStyle(s.guiStyle, c, p, s.propertyValue)]
              ELSE IF p = TEXT_ALIGNMENT
              THEN [s EXCEPT !.guiStyle = GuiSetStyle(s.guiStyle, c, p, s.textAlignmentActive)]
              ELSE s)

\* The selection logic with the obtain left out: the widgets keep what they held
SelectionLogicNoObtain(s) ==
    LET reset == IF s.previousSelectedControl # s.currentSelectedControl
                 THEN [s EXCEPT !.currentSelectedProperty = 0 - 1]
                 ELSE s
        selected == IF reset.currentSelectedControl >= 0 /\ reset.currentSelectedProperty >= 0
                    THEN SetProperty(reset)
                    ELSE reset
    IN  [selected EXCEPT !.previousSelectedProperty = selected.currentSelectedProperty,
                         !.previousSelectedControl = selected.currentSelectedControl]

\* "Controls selection on list view logic".  obtainProperty is false when a
\* frame starts: the branch that sets it also clears it.
SelectionLogic(s) ==
    LET reset == IF s.previousSelectedControl # s.currentSelectedControl
                 THEN [s EXCEPT !.currentSelectedProperty = 0 - 1]
                 ELSE s
        obtainProperty == reset.previousSelectedProperty # reset.currentSelectedProperty
        selected ==
            IF reset.currentSelectedControl >= 0 /\ reset.currentSelectedProperty >= 0
            THEN SetProperty(IF obtainProperty THEN ObtainProperty(reset) ELSE reset)
            ELSE reset
    IN  [selected EXCEPT !.previousSelectedProperty = selected.currentSelectedProperty,
                         !.previousSelectedControl = selected.currentSelectedControl]

\* raygui's global state where a widget of the main layout is drawn, TRUE for
\* GUI_STATE_NORMAL: the GuiDisable(), GuiEnable() and GuiSetState() calls of
\* the draw part in program order, propsStateActive being GUI_STATE_NORMAL
WidgetEnabled(s, widget) ==
    LET overlay == s.windowAboutActive \/ s.windowExitActive
        toolbar == ~overlay
        controls == TRUE
        properties == controls /\ s.currentSelectedControl # 0 - 1
        afterLists == ~overlay \/ properties
        value == /\ afterLists
                 /\ ~(\/ s.currentSelectedControl = DEFAULT
                      \/ (/\ s.currentSelectedProperty # TEXT_PADDING
                          /\ s.currentSelectedProperty # BORDER_WIDTH))
        colour == ~overlay \/ value
        alignment == colour /\ s.currentSelectedProperty = TEXT_ALIGNMENT
        fontOptions == ~overlay \/ alignment
    IN  CASE widget \in {"btn-load", "btn-save", "btn-about"} -> toolbar
          [] widget = "list-control" -> controls
          [] widget = "list-property" -> properties
          [] widget = "value-slider" -> value
          [] widget = "color-picker" -> colour
          [] widget = "alignment-toggle" -> alignment
          [] widget \in {"btn-load-font", "format-combo", "btn-export"} -> fontOptions
          [] OTHER -> TRUE

\* The draw part up to the file dialogs: the widget the user acts on returns
\* what the user chose, every other widget what it was given.  A list view
\* returns -1 for a click on the selected entry.
DrawGui(s, in) ==
    IF ~WidgetEnabled(s, in.event) THEN s
    ELSE CASE in.event = "btn-load" -> [s EXCEPT !.showLoadFileDialog = TRUE]
           [] in.event = "btn-save" -> [s EXCEPT !.showSaveFileDialog = TRUE]
           [] in.event = "btn-about" -> [s EXCEPT !.windowAboutActive = TRUE]
           [] in.event = "list-control" ->
                 [s EXCEPT !.currentSelectedControl =
                               IF s.currentSelectedControl = in.arg THEN 0 - 1 ELSE in.arg]
           [] in.event = "list-property" /\ in.arg < PropsListCount(s.currentSelectedControl) ->
                 [s EXCEPT !.currentSelectedProperty =
                               IF s.currentSelectedProperty = in.arg THEN 0 - 1 ELSE in.arg]
           [] in.event = "value-slider" -> [s EXCEPT !.propertyValue = in.arg]
           [] in.event = "color-picker" -> [s EXCEPT !.colorPickerValue = GetColor(in.arg)]
           [] in.event = "alignment-toggle" -> [s EXCEPT !.textAlignmentActive = in.arg]
           [] in.event = "btn-load-font" -> [s EXCEPT !.showLoadFontFileDialog = TRUE]
           [] in.event = "format-combo" -> [s EXCEPT !.exportFormatActive = in.arg]
           [] in.event = "btn-export" -> [s EXCEPT !.showExportFileDialog = TRUE]
           [] in.event = "about-close" /\ s.windowAboutActive ->
                 [s EXCEPT !.windowAboutActive = FALSE]
           [] in.event = "exit-close" /\ s.windowExitActive ->
                 [s EXCEPT !.windowExitActive = FALSE]
           [] in.event = "exit-yes" /\ s.windowExitActive ->
                 [s EXCEPT !.showExportFileDialog = TRUE]
           [] in.event = "exit-no" /\ s.windowExitActive -> [s EXCEPT !.exitWindow = TRUE]
           [] OTHER -> s

\* What GuiFileDialog returns in this frame for the dialog the events `ok`
\* and `cancel` belong to: 1, 0, or -1 while the dialog stays open
DialogResult(in, ok, cancel) ==
    IF in.event = ok THEN 1 ELSE IF in.event = cancel THEN 0 ELSE 0 - 1

\* "GUI: Load File Dialog (and loading logic)": the dialog writes the chosen
\* path to inFileName when it returns 1; `loaded` is what GuiLoadStyle left
StyleLoadedByDialog(s, path, loaded) ==
    [s EXCEPT !.inFileName = path,
              !.guiStyle = loaded.style,
              !.guiFont = loaded.font,
              !.saveChangesRequired = FALSE,
              !.customFont = loaded.font,
              !.fontFilePath = "",
              !.fontFileProvided = FALSE,
              !.customFontLoaded = TRUE,
              !.showLoadFileDialog = FALSE]

LoadFileDialog(s, in) ==
    IF ~s.showLoadFileDialog \/ DialogResult(in, "load-ok", "load-cancel") < 0 THEN s
    ELSE IF DialogResult(in, "load-ok", "load-cancel") = 0
    THEN [s EXCEPT !.showLoadFileDialog = FALSE]
    ELSE CHOOSE done \in
             {StyleLoadedByDialog(s, in.arg, loaded) :
                  loaded \in {GuiLoadStyle(StyleFileAt(in.arg).bytes, s.guiStyle,
                                           s.guiFont)}} : TRUE

\* "GUI: Load Font File Dialog (and loading logic)": this dialog too writes
\* the chosen path to inFileName
LoadFontFileDialog(s, in) ==
    IF ~s.showLoadFontFileDialog \/ DialogResult(in, "font-ok", "font-cancel") < 0 THEN s
    ELSE IF DialogResult(in, "font-ok", "font-cancel") = 0
    THEN [s EXCEPT !.showLoadFontFileDialog = FALSE]
    ELSE CHOOSE done \in
             {[FontLoaded(s, in.arg, tempFont) EXCEPT !.inFileName = in.arg,
                                                      !.showLoadFontFileDialog = FALSE] :
                  tempFont \in {LoadFontEx(FontFileAt(in.arg), s.genFontSizeValue)}} : TRUE

\* outFileName: the style name and the extension the dialog is opened with,
\* which the user accepts
OutFileName(s, ext) == <<s.styleNameText, ext>>

\* The save dialog saving on every result that closes it
SaveFileDialogOnAnyResult(s, in) ==
    IF ~s.showSaveFileDialog \/ DialogResult(in, "save-ok", "save-cancel") < 0 THEN s
    ELSE [CallSaveStyle(s, OutFileName(s, ".rgs"), in.canOpen)
              EXCEPT !.showSaveFileDialog = FALSE]

\* "GUI: Save File Dialog (and saving logic)"
SaveFileDialog(s, in) ==
    IF ~s.showSaveFileDialog \/ DialogResult(in, "save-ok", "save-cancel") < 0 THEN s
    ELSE IF DialogResult(in, "save-ok", "save-cancel") = 0
    THEN [s EXCEPT !.showSaveFileDialog = FALSE]
    ELSE [CallSaveStyle(s, OutFileName(s, ".rgs"), in.canOpen)
              EXCEPT !.showSaveFileDialog = FALSE]

\* "GUI: Export File Dialog (and saving logic)"
ExportFileDialog(s, in) ==
    IF ~s.showExportFileDialog \/ DialogResult(in, "export-ok", "export-cancel") < 0 THEN s
    ELSE IF DialogResult(in, "export-ok", "export-cancel") = 0
    THEN [s EXCEPT !.showExportFileDialog = FALSE]
    ELSE IF s.exportFormatActive = STYLE_BINARY
    THEN [CallSaveStyle(s, OutFileName(s, ".rgs"), in.canOpen)
              EXCEPT !.showExportFileDialog = FALSE]
    ELSE IF s.exportFormatActive = STYLE_AS_CODE
    THEN [CallExportStyleAsCode(s, OutFileName(s, ".h"), s.styleNameText, in.canOpen)
              EXCEPT !.showExportFileDialog = FALSE]
    ELSE IF s.exportFormatActive = STYLE_TABLE_IMAGE
    THEN [s EXCEPT !.guiStyle = GenImageStyleControlsTable(s.guiStyle),
                   !.fileName = OutFileName(s, ".png"),
                   !.showExportFileDialog = FALSE]
    ELSE [s EXCEPT !.showExportFileDialog = FALSE]

\* One frame of the main loop from the state s with the input `in`: the parts
\* of the loop body in program order, each on the state the part before left
FrameEnd(s, in) ==
    CHOOSE end \in
        {ExportFileDialog(save, in) : save \in
        {SaveFileDialog(font, in) : font \in
        {LoadFontFileDialog(load, in) : load \in
        {LoadFileDialog(drawn, in) : drawn \in
        {DrawGui(selection, in) : selection \in
        {SelectionLogic(flow) : flow \in
        {ProgramFlowLogic(keys, in) : keys \in
        {KeyboardShortcuts(dropped, in) : dropped \in
        {DroppedFilesLogic(start, in) : start \in
        {FrameStart(s)}}}}}}}}}} : TRUE

\* while (!exitWindow) { ... }: the frame's result becomes the state
MainLoop(in) ==
    \E s \in {FrameEnd(Current, in)} :
        /\ ~exitWindow
        /\ guiStyle' = s.guiStyle
        /\ guiFont' = s.guiFont
        /\ styleBackup' = s.styleBackup
        /\ customFont' = s.customFont
        /\ customFontLoaded' = s.customFontLoaded
        /\ fontFilePath' = s.fontFilePath
        /\ fontFileProvided' = s.fontFileProvided
        /\ genFontSizeValue' = s.genFontSizeValue
        /\ fontSpacingValue' = s.fontSpacingValue
        /\ rgsFile' = s.rgsFile
        /\ txtFile' = s.txtFile
        /\ success' = s.success
        /\ fileOps' = s.fileOps
        /\ fileName' = s.fileName
        /\ inFileName' = s.inFileName
        /\ styleNameText' = s.styleNameText
        /\ changedPropCounter' = s.changedPropCounter
        /\ saveChangesRequired' = s.saveChangesRequired
        /\ currentSelectedControl' = s.currentSelectedControl
        /\ currentSelectedProperty' = s.currentSelectedProperty
        /\ previousSelectedControl' = s.previousSelectedControl
        /\ previousSelectedProperty' = s.previousSelectedProperty
        /\ colorPickerValue' = s.colorPickerValue
        /\ propertyValue' = s.propertyValue
        /\ textAlignmentActive' = s.textAlignmentActive
        /\ exportFormatActive' = s.exportFormatActive
        /\ windowAboutActive' = s.windowAboutActive
        /\ exitWindow' = s.exitWindow
        /\ windowExitActive' = s.windowExitActive
        /\ showLoadFileDialog' = s.showLoadFileDialog
        /\ showLoadFontFileDialog' = s.showLoadFontFileDialog
        /\ showSaveFileDialog' = s.showSaveFileDialog
        /\ showExportFileDialog' = s.showExportFileDialog
        /\ lastOp' = in.event
        /\ UNCHANGED commandLineVars

\* ------------------------------------------------------ the frames' inputs
Input(event, arg) == [event |-> event, arg |-> arg, canOpen |-> TRUE]

\* A frame in which the user does nothing
Idle == Input("idle", 0)

\* The store after the frame with the input `in` and the frame after it:
\* what an editor widget holds is written by the next frame's update
StoreAfter(in) == FrameEnd(FrameEnd(Current, in), Idle).guiStyle

\* The user leaves at most MaxChanged pairs edited away from the baseline
WithinChanged(in) == Cardinality(ChangedCells(StoreAfter(in), styleBackup)) <= MaxChanged

\* The controls and the properties the user clicks in the two list views: the
\* first and the last colour entry and the three entries after them (for
\* DEFAULT the entries 12 and 13 are BACKGROUND_COLOR and LINE_COLOR); and the
\* values the user sets the editor's widgets to
ListControls == {DEFAULT, LABEL}
ListProperties == {0, TEXT_COLOR_DISABLED, BORDER_WIDTH, TEXT_PADDING, TEXT_ALIGNMENT}
SliderValues == {0, 2}
AlignmentValues == {0, GUI_TEXT_ALIGN_CENTER}

IdleFrame ==
    /\ FrameEnd(Current, Idle) # Current
    /\ MainLoop(Idle)

ClickControl(control) ==
    /\ WidgetEnabled(Current, "list-control")
    /\ MainLoop(Input("list-control", control))

ClickProperty(property) ==
    /\ WidgetEnabled(Current, "list-property")
    /\ property < PropsListCount(currentSelectedControl)
    /\ MainLoop(Input("list-property", property))

PickColor(value) ==
    /\ WidgetEnabled(Current, "color-picker")
    /\ WithinChanged(Input("color-picker", value))
    /\ MainLoop(Input("color-picker", value))

SlideValue(value) ==
    /\ WidgetEnabled(Current, "value-slider")
    /\ WithinChanged(Input("value-slider", value))
    /\ MainLoop(Input("value-slider", value))

ToggleAlignment(value) ==
    /\ WidgetEnabled(Current, "alignment-toggle")
    /\ WithinChanged(Input("alignment-toggle", value))
    /\ MainLoop(Input("alignment-toggle", value))

\* main() in GUI mode, started with `start`
WindowStart(start) == MainInit(start) /\ WindowInit(start) /\ CommandLineOff

\* The property editor: the user clicks in the two list views and sets the
\* editor's widgets, and does nothing else
EditorInit == WindowStart("none")

EditorNext ==
    \/ IdleFrame
    \/ \E control \in ListControls : ClickControl(control)
    \/ \E property \in ListProperties : ClickProperty(property)
    \/ \E value \in StyleValues : PickColor(value)
    \/ \E value \in SliderValues : SlideValue(value)
    \/ \E value \in AlignmentValues : ToggleAlignment(value)

EditorSpec == EditorInit /\ [][EditorNext]_vars

\* --------------------------------------------------- the whole main window
\* A file dialog is open
AnyDialog ==
    showLoadFileDialog \/ showLoadFontFileDialog \/ showSaveFileDialog \/ showExportFileDialog

\* The keys, the files and the buttons of the frames' inputs
ShortcutKeys == {"CTRL_O", "CTRL_S", "CTRL_E", "F1", "ESC", "CTRL_R"}
DroppedFiles == {"sample.rgs"}
DialogStyleFiles == {"font.rgs"}
DialogFontFiles == {"font.ttf"}
MainButtons == {"btn-load", "btn-save", "btn-about", "btn-load-font", "btn-export"}
ExportFormats == {STYLE_BINARY, STYLE_AS_CODE}

\* A file dialog takes the input while it is open: the main window gets the
\* user's keys, drops and clicks in the frames in which none is.  While the
\* exit window asks its question the only key the user presses is ESC.
PressKey(key) ==
    /\ ~AnyDialog
    /\ key = "ESC" \/ ~windowExitActive
    /\ MainLoop(Input(key, 0))

DropFile(path) ==
    /\ ~AnyDialog
    /\ MainLoop(Input("drop", path))

ClickButton(button) ==
    /\ ~AnyDialog
    /\ WidgetEnabled(Current, button)
    /\ MainLoop(Input(button, 0))

SelectFormat(format) ==
    /\ ~AnyDialog
    /\ WidgetEnabled(Current, "format-combo")
    /\ MainLoop(Input("format-combo", format))

\* The about window's close button
CloseAbout ==
    /\ ~AnyDialog
    /\ windowAboutActive
    /\ MainLoop(Input("about-close", 0))

\* The exit window's close button, "Yes" and "No"
AnswerExit(answer) ==
    /\ ~AnyDialog
    /\ windowExitActive
    /\ MainLoop(Input(answer, 0))

\* The open dialog returns 1 with the chosen file, or 0
ConfirmLoad(path) ==
    /\ showLoadFileDialog
    /\ MainLoop(Input("load-ok", path))

ConfirmLoadFont(path) ==
    /\ showLoadFontFileDialog
    /\ MainLoop(Input("font-ok", path))

ConfirmSave ==
    /\ showSaveFileDialog
    /\ MainLoop(Input("save-ok", 0))

ConfirmExport ==
    /\ showExportFileDialog
    /\ MainLoop(Input("export-ok", 0))

CancelDialog ==
    \/ showLoadFileDialog /\ MainLoop(Input("load-cancel", 0))
    \/ showLoadFontFileDialog /\ MainLoop(Input("font-cancel", 0))
    \/ showSaveFileDialog /\ MainLoop(Input("save-cancel", 0))
    \/ showExportFileDialog /\ MainLoop(Input("export-cancel", 0))

\* main() started without an argument or with font.rgs
MainLoopInit == \E start \in {"none", "font.rgs"} : WindowStart(start)

MainLoopNext ==
    \/ IdleFrame
    \/ \E key \in ShortcutKeys : PressKey(key)
    \/ \E path \in DroppedFiles : DropFile(path)
    \/ \E button \in MainButtons : ClickButton(button)
    \/ \E format \in ExportFormats : SelectFormat(format)
    \/ CloseAbout
    \/ \E answer \in {"exit-close", "exit-yes", "exit-no"} : AnswerExit(answer)
    \/ \E path \in DialogStyleFiles : ConfirmLoad(path)
    \/ \E path \in DialogFontFiles : ConfirmLoadFont(path)
    \/ ConfirmSave
    \/ ConfirmExport
    \/ CancelDialog

MainLoopSpec == MainLoopInit /\ [][MainLoopNext]_vars

\* ------------------------------------------------------- editing and leaving
\* The user edits a colour of LABEL, presses ESC and F1 and answers the
\* exit window
QuitInit == WindowStart("none")

QuitNext ==
    \/ IdleFrame
    \/ ClickControl(LABEL)
    \/ ClickProperty(0)
    \/ \E value \in StyleValues : PickColor(value)
    \/ \E key \in {"ESC", "F1"} : PressKey(key)
    \/ \E answer \in {"exit-close", "exit-no"} : AnswerExit(answer)

QuitSpec == QuitInit /\ [][QuitNext]_vars

\* ======================================================== the command line
\* main() with more than one argument, or with --help alone, calls
\* ProcessCommandLine(argc, argv) and returns 0.  One action is one pass of
\* the loop over the arguments; ProcessInputFile is the rest of the function
\* and main()'s return.

\* The arguments naming files and formats
InputArgs == {<<"--input", "sample.rgs">>, <<"-i", "font.rgs">>, <<"--input", "style.txt">>}
OutputArgs == {<<>>, <<"--output", "table.png">>, <<"-o", "out">>, <<"--output">>}
FormatTexts == {"0", "1", "2", "3", "4", "-1"}
FormatArgs == {<<>>, <<"-f">>} \cup {<<"--format", text>> : text \in FormatTexts}
HelpArgs == {<<>>, <<"--help">>, <<"-h">>}

\* The command lines: the options in two of their orders
CommandLines ==
    {input \o format \o output \o help :
         input \in InputArgs, format \in FormatArgs, output \in OutputArgs, help \in HelpArgs}
    \cup {help \o format \o input \o output :
              input \in InputArgs \cup {<<>>}, format \in FormatArgs, output \in OutputArgs,
              help \in HelpArgs \ {<<>>}}

\* argv[i][0] == '-'
StartsWithDash(arg) ==
    arg \in {"-h", "--help", "-i", "--input", "-o", "--output", "-f", "--format", "-1"}

\* TextToInteger(text) of raylib, for the texts of FormatTexts
TextToInteger(text) ==
    CASE text = "0" -> 0
      [] text = "1" -> 1
      [] text = "2" -> 2
      [] text = "3" -> 3
      [] text = "4" -> 4
      [] text = "-1" -> 0 - 1
      [] OTHER -> 0

\* ProcessCommandLine() at its declarations, main() not having reached the
\* window's initialization: the statics are as they are defined
CommandLineInit ==
    /\ argv \in CommandLines
    /\ argIndex = 1
    /\ showUsageInfo = FALSE
    /\ cmdInFileName = ""
    /\ cmdOutFileName = ""
    /\ outputFormat = STYLE_BINARY
    /\ outputs = <<>>
    /\ exitCode = 0 - 1
    /\ guiStyle = DefaultStyle
    /\ guiFont = FontDefault
    /\ styleBackup = [k \in Cells |-> 0]
    /\ customFont = NoFont
    /\ customFontLoaded = FALSE
    /\ fontFilePath = ""
    /\ fontFileProvided = FALSE
    /\ genFontSizeValue = 10
    /\ fontSpacingValue = 1
    /\ rgsFile = NoFile
    /\ txtFile = NoFile
    /\ success = FALSE
    /\ fileOps = <<>>
    /\ lastOp = "start"
    /\ WindowInit("none")

\* "for (int i = 1; i < argc; i++)" has an argument to look at
InLoop == exitCode < 0 /\ argIndex <= Len(argv)

\* "((i + 1) < argc) && (argv[i + 1][0] != '-')"
HasValue == argIndex + 1 <= Len(argv) /\ ~StartsWithDash(argv[argIndex + 1])

\* What a pass of the loop leaves alone
PassLeaves == UNCHANGED <<guiStyle, guiFont, styleBackup, fontVars, spinnerVars, fileVars,
                          windowVars, argv, outputs, exitCode>>

\* "-h", "--help"
ArgHelp ==
    /\ InLoop
    /\ argv[argIndex] \in {"-h", "--help"}
    /\ showUsageInfo' = TRUE
    /\ argIndex' = argIndex + 1
    /\ lastOp' = "arg-help"
    /\ UNCHANGED <<cmdInFileName, cmdOutFileName, outputFormat>>
    /\ PassLeaves

\* "-i", "--input"
ArgInput ==
    /\ InLoop
    /\ argv[argIndex] \in {"-i", "--input"}
    /\ IF HasValue
       THEN /\ cmdInFileName' = IF IsFileExtension(argv[argIndex + 1], ".rgs")
                                THEN argv[argIndex + 1]
                                ELSE cmdInFileName
            /\ argIndex' = argIndex + 2
       ELSE /\ cmdInFileName' = cmdInFileName
            /\ argIndex' = argIndex + 1
    /\ lastOp' = "arg-input"
    /\ UNCHANGED <<showUsageInfo, cmdOutFileName, outputFormat>>
    /\ PassLeaves

\* "-o", "--output"
ArgOutput ==
    /\ InLoop
    /\ argv[argIndex] \in {"-o", "--output"}
    /\ IF HasValue
       THEN /\ cmdOutFileName' = IF \/ IsFileExtension(argv[argIndex + 1], ".rgs")
                                    \/ IsFileExtension(argv[argIndex + 1], ".h")
                                    \/ IsFileExtension(argv[argIndex + 1], ".png")
                                 THEN argv[argIndex + 1]
                                 ELSE cmdOutFileName
            /\ argIndex' = argIndex + 2
       ELSE /\ cmdOutFileName' = cmdOutFileName
            /\ argIndex' = argIndex + 1
    /\ lastOp' = "arg-output"
    /\ UNCHANGED <<showUsageInfo, cmdInFileName, outputFormat>>
    /\ PassLeaves

\* "-f", "--format"
ArgFormat ==
    /\ InLoop
    /\ argv[argIndex] \in {"-f", "--format"}
    /\ IF HasValue
       THEN /\ outputFormat' = IF /\ TextToInteger(argv[argIndex + 1]) >= 0
                                  /\ TextToInteger(argv[argIndex + 1]) <= 3
                               THEN TextToInteger(argv[argIndex + 1])
                               ELSE outputFormat
            /\ argIndex' = argIndex + 2
       ELSE /\ outputFormat' = outputFormat
            /\ argIndex' = argIndex + 1
    /\ lastOp' = "arg-format"
    /\ UNCHANGED <<showUsageInfo, cmdInFileName, cmdOutFileName>>
    /\ PassLeaves

\* An argument that is none of the options
ArgOther ==
    /\ InLoop
    /\ argv[argIndex] \notin {"-h", "--help", "-i", "--input", "-o", "--output", "-f", "--format"}
    /\ argIndex' = argIndex + 1
    /\ lastOp' = "arg-other"
    /\ UNCHANGED <<showUsageInfo, cmdInFileName, cmdOutFileName, outputFormat>>
    /\ PassLeaves

\* "Export style files with different formats": the switch on outputFormat
\* writes the file `outName` with the format's extension; the case of
\* STYLE_TEXT is commented out.  The files can be created.
ExportSwitch(loaded, outName) ==
    IF outputFormat = STYLE_BINARY
    THEN /\ guiStyle' = loaded.style
         /\ rgsFile' = SaveStyleBinary(loaded.style, styleBackup, customFontLoaded, customFont,
                                       CompressedSize(customFont))
         /\ txtFile' = NoFile
         /\ success' = SaveStyleResult(STYLE_BINARY, TRUE)
         /\ fileOps' = SaveStyleFileOps(STYLE_BINARY, TRUE)
         /\ outputs' = <<<<"binary", outName, ".rgs">>>>
    ELSE IF outputFormat = STYLE_AS_CODE
    THEN /\ guiStyle' = loaded.style
         /\ txtFile' = ExportStyleAsCode(loaded.style, styleBackup, customFontLoaded,
                                         customFont, fontFilePath,
                                         GetFileNameWithoutExt(outName),
                                         CompressData(CompressedSize(customFont)))
         /\ rgsFile' = NoFile
         /\ fileOps' = ExportStyleAsCodeFileOps(TRUE)
         /\ outputs' = <<<<"code", outName, ".h">>>>
         /\ UNCHANGED success
    ELSE IF outputFormat = STYLE_TABLE_IMAGE
    THEN /\ guiStyle' = GenImageStyleControlsTable(loaded.style)
         /\ outputs' = <<<<"table-image", outName, ".png">>>>
         /\ UNCHANGED fileVars
    ELSE /\ guiStyle' = loaded.style
         /\ UNCHANGED <<fileVars, outputs>>

\* The arguments are read: the input file, if one was named, is loaded and
\* exported; main() returns 0
ProcessInputFile ==
    /\ exitCode < 0
    /\ argIndex > Len(argv)
    /\ IF cmdInFileName # ""
       THEN \E outName \in {IF cmdOutFileName = "" THEN "output" ELSE cmdOutFileName} :
            \E loaded \in {GuiLoadStyle(StyleFileAt(cmdInFileName).bytes, guiStyle, guiFont)} :
                /\ cmdOutFileName' = outName
                /\ guiFont' = loaded.font
                /\ ExportSwitch(loaded, outName)
       ELSE UNCHANGED <<cmdOutFileName, guiStyle, guiFont, fileVars, outputs>>
    /\ exitCode' = 0
    /\ lastOp' = "return"
    /\ UNCHANGED <<styleBackup, customFont, customFontLoaded, fontFilePath, fontFileProvided,
                   spinnerVars, windowVars, argv, argIndex, showUsageInfo, cmdInFileName,
                   outputFormat>>

CommandLineNext ==
    \/ ArgHelp
    \/ ArgInput
    \/ ArgOutput
    \/ ArgFormat
    \/ ArgOther
    \/ ProcessInputFile

CommandLineSpec == CommandLineInit /\ [][CommandLineNext]_vars

\* ================================================================== claims
\* ------------------------------------------------- reading the files back
SavedBinary == lastOp = "save-binary" /\ success
SavedText == lastOp = "save-text" /\ success
ExportedCode == lastOp = "export-code"

\* The count the binary file declares at offset 8, and the records it holds
FileCount == ReadInt(rgsFile, 8)
FileHoldsRecords == Len(rgsFile) >= FontOffset(FileCount) + 4
FileRecords == ReadRecords(rgsFile, FileCount, 0)

\* The specification's Change-Set, as a set of (control, property) pairs
InChangeSet(i, j) ==
    IF i = 0 THEN guiStyle[j] # styleBackup[j]
    ELSE /\ guiStyle[i*NumProps + j] # styleBackup[i*NumProps + j]
         /\ guiStyle[i*NumProps + j] # guiStyle[j]

ChangeSet == {<<i, j, guiStyle[i*NumProps + j]>> : <<i, j>> \in {c \in Controls \X Props : InChangeSet(c[1], c[2])}}

SeqRange(q) == {q[k] : k \in 1 .. Len(q)}

\* (control, property) of record a comes before that of record b
Before(a, b) == a[1] < b[1] \/ (a[1] = b[1] /\ a[2] < b[2])

Ascending(q) == \A a, b \in 1 .. Len(q) : a < b => Before(q[a], q[b])

\* The positions where a line of the text begins, and the line that begins there
LineStarts(frags) == {k \in 1 .. Len(frags) : k = 1 \/ frags[k - 1] = NL}

LineAt(frags, k) ==
    LET end == CHOOSE m \in k .. Len(frags) + 1 :
                   /\ m = Len(frags) + 1 \/ frags[m] = NL
                   /\ \A x \in k .. m - 1 : frags[x] # NL
    IN  SubSeq(frags, k, end - 1)

\* The members of a set of positions in ascending order
SortedSeq(S) ==
    [n \in 1 .. Cardinality(S) |-> CHOOSE k \in S : Cardinality({m \in S : m < k}) = n - 1]

IsDigit(ch) == \E d \in 1 .. 10 : HexChars[d] = ch
IsHexDigit(ch) == \E d \in 1 .. 16 : HexChars[d] = ch
DigitValue(ch) == (CHOOSE d \in 1 .. 16 : HexChars[d] = ch) - 1

RECURSIVE NumberValue(_, _)
\* The number a sequence of digits denotes in the given base
NumberValue(digits, base) ==
    IF digits = <<>> THEN 0
    ELSE base*NumberValue(SubSeq(digits, 1, Len(digits) - 1), base)
         + DigitValue(digits[Len(digits)])

RECURSIVE DigitRun(_, _)
\* The digits of the line from position k up to the first fragment that is no digit
DigitRun(line, k) ==
    IF k > Len(line) \/ ~IsDigit(line[k]) THEN <<>>
    ELSE <<line[k]>> \o DigitRun(line, k + 1)

\* A 'p' data line of the text format: p CC PP 0xVVVVVVVV name
IsTextDataLine(line) ==
    /\ Len(line) >= 18
    /\ line[1] = "p" /\ line[2] = " " /\ IsDigit(line[3]) /\ IsDigit(line[4])
    /\ line[5] = " " /\ IsDigit(line[6]) /\ IsDigit(line[7]) /\ line[8] = " "
    /\ line[9] = "0x" /\ \A k \in 10 .. 17 : IsHexDigit(line[k])
    /\ line[18] = "    "

TextTriple(line) ==
    <<NumberValue(SubSeq(line, 3, 4), 10), NumberValue(SubSeq(line, 6, 7), 10),
      NumberValue(SubSeq(line, 10, 17), 16)>>

\* The triples of the 'p' lines of a text style file, in file order
TextTriples(frags) ==
    LET starts == SortedSeq({k \in LineStarts(frags) :
                                frags[k] = "p" /\ IsTextDataLine(LineAt(frags, k))})
    IN  [n \in 1 .. Len(starts) |-> TextTriple(LineAt(frags, starts[n]))]

\* The lines of the generated GuiStyleProp array: from the line after its
\* opening up to the line before the first "};"
StylePropsLines(frags) ==
    LET begins == LineStarts(frags)
        opens == {k \in begins : frags[k] = "static const GuiStyleProp "}
        open == CHOOSE k \in opens : \A m \in opens : k <= m
        closes == {k \in begins : k > open /\ frags[k] = "};"}
        close == CHOOSE k \in closes : \A m \in closes : k <= m
        inner == SortedSeq({k \in begins : open < k /\ k < close})
    IN  IF opens = {} THEN <<>>
        ELSE IF closes = {} THEN <<>>
        ELSE [n \in 1 .. Len(inner) |-> LineAt(frags, inner[n])]

\* { control, property, 0xvalue } of a line of the generated array
CodeTriple(line) ==
    LET c == DigitRun(line, 2)
        pAt == 2 + Len(c) + 1
        p == DigitRun(line, pAt)
        vAt == pAt + Len(p) + 2
    IN  IF Len(line) >= vAt + 7
        THEN <<NumberValue(c, 10), NumberValue(p, 10), NumberValue(SubSeq(line, vAt, vAt + 7), 16)>>
        ELSE <<"no triple">>

CodeTriples(frags) ==
    LET ls == StylePropsLines(frags)
    IN  [k \in 1 .. Len(ls) |-> CodeTriple(ls[k])]

\* The value of "#define <NAME>_STYLE_PROPS_COUNT  <n>"
CodeDeclaredCount(frags) ==
    LET defines == {k \in LineStarts(frags) :
                       /\ k + 2 <= Len(frags)
                       /\ frags[k] = "#define "
                       /\ frags[k + 2] = "_STYLE_PROPS_COUNT  "}
    IN  IF defines = {} THEN -1
        ELSE NumberValue(DigitRun(LineAt(frags, CHOOSE k \in defines : TRUE), 4), 10)

\* ------------------------------------------------------------------ C1..C5
\* C1: the records the binary SaveStyle writes are in strictly ascending
\* (control, property) order: the DEFAULT (control 0) records in ascending
\* property order first, then the other controls in ascending control order
\* with ascending properties inside each; no control 0 record follows another
\* control's record.
C1_RecordOrder ==
    SavedBinary =>
        /\ FileHoldsRecords
        /\ Ascending(FileRecords)
        /\ \A a, b \in 1 .. FileCount : (a < b /\ FileRecords[b][1] = 0) => FileRecords[a][1] = 0

\* A saved file that holds a DEFAULT record first and a record of another control last
C1_Witness ==
    /\ SavedBinary
    /\ FileHoldsRecords
    /\ FileCount >= 2
    /\ FileRecords[1][1] = 0
    /\ FileRecords[FileCount][1] # 0

\* C2: the records written are exactly the Change-Set: (0, j, S[0][j]) for
\* every j with S[0][j] # B[0][j], and (i, j, S[i][j]) for every i >= 1 with
\* S[i][j] # B[i][j] and S[i][j] # S[0][j]; each once, nothing else.
C2_Membership ==
    SavedBinary =>
        /\ FileHoldsRecords
        /\ SeqRange(FileRecords) = ChangeSet
        /\ FileCount = Cardinality(ChangeSet)

\* A control's value that left the baseline but equals DEFAULT's is saved
\* away: it is not among the records
C2_Witness ==
    /\ SavedBinary
    /\ \E i \in Controls \ {0}, j \in Props :
          /\ guiStyle[i*NumProps + j] # styleBackup[i*NumProps + j]
          /\ guiStyle[i*NumProps + j] = guiStyle[j]
          /\ guiStyle[j] # styleBackup[j]

\* Two sibling controls hold the same non-default value and both are saved
C2_SiblingsWitness ==
    /\ SavedBinary
    /\ FileHoldsRecords
    /\ \E j \in Props, a, b \in 1 .. FileCount :
          /\ FileRecords[a][1] = 1 /\ FileRecords[b][1] = 2
          /\ FileRecords[a][2] = j /\ FileRecords[b][2] = j
          /\ FileRecords[a][3] = FileRecords[b][3]

C4_DeclaredCount ==
    /\ SavedBinary =>
          /\ FileHoldsRecords
          /\ 8*FileCount = Len(BinaryRecords(guiStyle, styleBackup))
          /\ ~customFontLoaded => Len(rgsFile) = 12 + 8*FileCount + 4
          /\ customFontLoaded =>
                /\ Len(rgsFile) >= FontOffset(FileCount) + 52
                /\ Len(rgsFile) = FontOffset(FileCount) + 52
                                  + ReadInt(rgsFile, FontOffset(FileCount) + 36)
                                  + 32*ReadInt(rgsFile, FontOffset(FileCount) + 8)
    /\ ExportedCode => CodeDeclaredCount(txtFile) = Len(StylePropsLines(txtFile))

\* An export of a style with a changed pair that is not counted
C4_Witness ==
    /\ ExportedCode
    /\ CodeDeclaredCount(txtFile) >= 1
    /\ \E i \in Controls \ {0}, j \in Props :
          ~InChangeSet(i, j) /\ guiStyle[i*NumProps + j] # styleBackup[i*NumProps + j]

\* The triples each exporter writes for the store and baseline of the state
CurrentBinaryTriples ==
    LET f == SaveStyleBinary(guiStyle, styleBackup, customFontLoaded, customFont,
                             CompressedSize(customFont))
    IN  IF Len(f) >= FontOffset(ReadInt(f, 8)) + 4 THEN ReadRecords(f, ReadInt(f, 8), 0)
        ELSE <<"short file">>

CurrentTextTriples ==
    TextTriples(SaveStyleText(guiStyle, styleBackup, customFontLoaded, fontFilePath))

CurrentCodeTriples ==
    CodeTriples(ExportStyleAsCode(guiStyle, styleBackup, customFontLoaded, customFont,
                                  fontFilePath, "default",
                                  CompressData(CompressedSize(customFont))))

\* C5: for one store and baseline the binary codec, the text codec and the
\* code exporter write the same ordered sequence of (control, property,
\* value) triples, and StyleChangesCounter returns its length.
C5_SameTriples ==
    /\ SavedBinary =>
          /\ FileHoldsRecords
          /\ FileRecords = CurrentTextTriples
          /\ FileRecords = CurrentCodeTriples
          /\ StyleChangesCounter(guiStyle, styleBackup) = Len(FileRecords)
    /\ SavedText =>
          /\ TextTriples(txtFile) = CurrentBinaryTriples
          /\ TextTriples(txtFile) = CurrentCodeTriples
          /\ StyleChangesCounter(guiStyle, styleBackup) = Len(TextTriples(txtFile))
    /\ ExportedCode =>
          /\ CodeTriples(txtFile) = CurrentBinaryTriples
          /\ CodeTriples(txtFile) = CurrentTextTriples
          /\ StyleChangesCounter(guiStyle, styleBackup) = Len(CodeTriples(txtFile))

\* A text file with data lines, written while a changed pair is held back by
\* the DEFAULT comparison
C5_Witness ==
    /\ SavedText
    /\ Len(TextTriples(txtFile)) >= 1
    /\ \E i \in Controls \ {0}, j \in Props :
          ~InChangeSet(i, j) /\ guiStyle[i*NumProps + j] # styleBackup[i*NumProps + j]

\* ----------------------------------------------------------------- C6..C10
\* C6: after the initial load, after a reset to default (Ctrl+R) and after a
\* load of a style file (file drop or load dialog), styleBackup equals the
\* store at every (control, property), so that the Change-Set is empty.
C6_BaselineRecaptured ==
    lastOp \in {"start", "reset", "drop-style", "load-style"} =>
        /\ styleBackup = guiStyle
        /\ ChangeSet = {}

\* The baseline is written by the startup snapshot and by nothing after it
C6_BaselineNeverRewritten == [][styleBackup' = styleBackup]_vars

\* A style file was dropped on the editor that started with the default style
C6_DropWitness ==
    /\ lastOp = "drop-style"
    /\ styleBackup = DefaultStyle
    /\ guiStyle # styleBackup

\* C7: a binary file begins with "rGS ", the 2-byte version 200, a 2-byte
\* reserved 0 and the 4-byte count N; N records of 8 bytes (controlId 2,
\* propertyId 2, value 4) start at offset 12. When exactly one DEFAULT
\* property differs from the baseline and nothing else does, the count is 1
\* and the record is the 8 bytes of (0, that property, the new value).
C7_HeaderLayout ==
    SavedBinary =>
        /\ Len(rgsFile) >= 12
        /\ SubSeq(rgsFile, 1, 4) = <<114, 71, 83, 32>>
        /\ ReadUnsigned(rgsFile, 4, 2) = 200
        /\ ReadUnsigned(rgsFile, 6, 2) = 0
        /\ FileCount = Cardinality(ChangeSet)
        /\ FileHoldsRecords
        /\ \A k \in 1 .. FileCount : FileRecords[k] \in ChangeSet
        /\ \A j \in Props :
              ChangedCells(guiStyle, styleBackup) = {j} =>
                  /\ FileCount = 1
                  /\ SubSeq(rgsFile, 13, 20) =
                         <<0, 0, j % 256, j \div 256,
                           guiStyle[j] % 256, (guiStyle[j] \div 256) % 256,
                           (guiStyle[j] \div 65536) % 256, (guiStyle[j] \div 16777216) % 256>>
                  /\ ~customFontLoaded => Len(rgsFile) = 24

\* Only the colour 0x202020ff of one DEFAULT property left the baseline
C7_Witness ==
    /\ SavedBinary
    /\ \E j \in Props :
          /\ ChangedCells(guiStyle, styleBackup) = {j}
          /\ guiStyle[j] = ColorSample
          /\ Len(rgsFile) >= 20
          /\ SubSeq(rgsFile, 17, 20) = <<255, 32, 32, 32>>

\* C8: with no custom font loaded the file ends, directly after the last
\* record, with one 4-byte zero: it is 16 + 8*N bytes long, and decoding it
\* leaves the font untouched.
C8_FontAbsence ==
    (SavedBinary /\ ~customFontLoaded) =>
        /\ FileHoldsRecords
        /\ FileCount = Cardinality(ChangeSet)
        /\ Len(rgsFile) = 16 + 8*FileCount
        /\ SubSeq(rgsFile, 13 + 8*FileCount, 16 + 8*FileCount) = <<0, 0, 0, 0>>
        /\ \A font \in {guiFont, FontDefault, MakeFont(12, MaxGlyphs, PIXELFORMAT_UNCOMPRESSED_GRAY_ALPHA)} :
              LET decoded == GuiLoadStyle(rgsFile, styleBackup, font)
              IN  decoded.error = "none" /\ decoded.font = font

\* A file with records, saved without a font while the gui shows a font that
\* came out of a style file
C8_Witness ==
    /\ SavedBinary
    /\ ~customFontLoaded
    /\ Len(rgsFile) = 32
    /\ guiFont # FontDefault

\* The bytes of the font section of the saved file, from its size field on
FontSectionAt == FontOffset(FileCount)
FontSectionLen == Len(rgsFile) - FontSectionAt

\* C9: with a custom font embedded, the font-size field equals the byte size
\* of the embedded font data that is written (font parameters, atlas image
\* header, stored atlas bytes, glyph data), and is not zero.
C9_FontSizeField ==
    (SavedBinary /\ customFontLoaded) =>
        /\ FileHoldsRecords
        /\ ReadInt(rgsFile, FontSectionAt) # 0
        /\ \/ ReadInt(rgsFile, FontSectionAt) = FontSectionLen - 4
           \/ ReadInt(rgsFile, FontSectionAt) = FontSectionLen

\* What the field does hold: 20 bytes less than the section, and never zero
C9_FontSizeFieldShort ==
    (SavedBinary /\ customFontLoaded) =>
        /\ FileHoldsRecords
        /\ ReadInt(rgsFile, FontSectionAt) = FontSectionLen - 20
        /\ ReadInt(rgsFile, FontSectionAt) > 0

\* A file with an embedded font of MaxGlyphs glyphs
C9_Witness ==
    /\ SavedBinary
    /\ customFontLoaded
    /\ customFont.glyphCount = MaxGlyphs
    /\ FileHoldsRecords
    /\ ReadInt(rgsFile, FontSectionAt) = 32 + CompressedSize(customFont) + 32*MaxGlyphs

SavedFontSize == ReadInt(rgsFile', FontOffset(ReadInt(rgsFile', 8)))

\* C12: a saved style holds a font section exactly when a custom font was
\* loaded.  A save that follows a start with, or a reset to, or a load of a
\* style without a font (the gui font is raylib's default font) writes
\* font-size 0; a save that follows the load of a font file, or of a style
\* file that embeds a font (at startup, by dialog or by drop), writes a font
\* section that holds that font.
C12_FontSectionIffCustomFont ==
    [][SavedBinary' =>
          /\ (lastOp \in {"start", "reset", "drop-style", "load-style"} /\ guiFont = FontDefault)
                => SavedFontSize = 0
          /\ ((lastOp \in {"start", "drop-style", "load-style"} /\ guiFont = FileFont)
               \/ (lastOp = "font" /\ fontFileProvided /\ guiFont = customFont))
                => /\ SavedFontSize # 0
                   /\ ReadInt(rgsFile', FontOffset(ReadInt(rgsFile', 8)) + 4) = guiFont.baseSize
                   /\ ReadInt(rgsFile', FontOffset(ReadInt(rgsFile', 8)) + 8) = guiFont.glyphCount]_vars

\* The step is a load of a style file, by drop or by dialog, that failed
FailedLoadStep == lastOp' \in {"drop-style-failed", "load-style-failed"}

\* C13: a load of a style file that fails (bad magic, truncated file), by
\* drop or by the load dialog, leaves the store as the frame without the
\* load would have left it, and leaves the baseline, customFont,
\* customFontLoaded, fontFileProvided and fontFilePath as they were.
C13_FailedLoadTouchesNothing ==
    [][FailedLoadStep =>
          /\ guiStyle' = FrameLogic(guiStyle, genFontSizeValue, fontSpacingValue)
          /\ styleBackup' = styleBackup
          /\ customFont' = customFont
          /\ customFontLoaded' = customFontLoaded
          /\ fontFileProvided' = fontFileProvided
          /\ fontFilePath' = fontFilePath]_vars

\* What a failed load does leave alone: the baseline, and, in the load
\* dialog, the store
C13_FailedLoadKeepsBaseline ==
    [][/\ FailedLoadStep => styleBackup' = styleBackup
       /\ lastOp' = "load-style-failed" =>
             guiStyle' = FrameLogic(guiStyle, genFontSizeValue, fontSpacingValue)]_vars

\* The file of the save or export could not be opened: fopen returned NULL
OpenFailed == \E k \in 1 .. Len(fileOps) : fileOps[k] = "fopen-null"

\* C14: when the output file cannot be opened, SaveStyle returns false and
\* ExportStyleAsCode returns without writing; the store is what the frame had
\* made of it before the call, the baseline is what it was, and so the
\* Change-Set is the same before and after.  SaveStyle returns true only when
\* a file was opened, written and closed.
C14_FailureChangesNothing ==
    [][/\ OpenFailed' =>
             /\ ~success'
             /\ rgsFile' = NoFile /\ txtFile' = NoFile
             /\ guiStyle' = FrameLogic(guiStyle, genFontSizeValue, fontSpacingValue)
             /\ styleBackup' = styleBackup
             /\ StyleChangesCounter(guiStyle', styleBackup')
                    = StyleChangesCounter(FrameLogic(guiStyle, genFontSizeValue,
                                                     fontSpacingValue), styleBackup)
       /\ success' =>
             /\ fileOps' = <<"fopen", "fclose">>
             /\ rgsFile' # NoFile \/ txtFile' # NoFile]_vars

\* A save of a store with changes whose file could not be opened
C14_Witness ==
    /\ lastOp = "save-failed"
    /\ OpenFailed
    /\ ~success
    /\ StyleChangesCounter(guiStyle, styleBackup) >= 1

\* Bytes put in the place of a byte of the magic, and the stores decoded onto
WrongBytes == {82, 255}
Destinations == {guiStyle, styleBackup}

\* The buffers made of a saved file by changing one byte of its first four:
\* the whole file, and the file cut after the magic, inside the header and
\* after the header
BadMagicBuffers ==
    {SubSeq([rgsFile EXCEPT ![k] = b], 1, n) :
        <<k, b, n>> \in {t \in (1 .. 4) \X WrongBytes \X {4, 8, 12, Len(rgsFile)} :
                            rgsFile[t[1]] # t[2]}}

ReadOnlyCall ==
    lastOp' \in {"save-binary", "save-text", "save-failed", "export-code", "export-image"}

\* C16: StyleChangesCounter, SaveStyle (binary or text), ExportStyleAsCode
\* and GenImageStyleControlsTable leave every (control, property) of the
\* store and of the baseline at the value it had before the call:
\* GenImageStyleControlsTable sets SLIDER_WIDTH and LABEL's TEXT_ALIGNMENT
\* back to what they were.
C16_ExportsOnlyRead ==
    [][ReadOnlyCall =>
          LET before == FrameLogic(guiStyle, genFontSizeValue, fontSpacingValue)
          IN  /\ \A i \in Controls, j \in Props :
                    /\ GuiGetStyle(guiStyle', i, j) = GuiGetStyle(before, i, j)
                    /\ GuiGetStyle(styleBackup', i, j) = GuiGetStyle(styleBackup, i, j)
              /\ GuiGetStyle(GenImageStyleControlsTable(before), SLIDER, SLIDER_WIDTH)
                     = GuiGetStyle(before, SLIDER, SLIDER_WIDTH)
              /\ GuiGetStyle(GenImageStyleControlsTable(before), LABEL, TEXT_ALIGNMENT)
                     = GuiGetStyle(before, LABEL, TEXT_ALIGNMENT)]_vars

\* A table image was made of a store with changes whose SLIDER_WIDTH is not
\* the 10 the rendering sets, and whose LABEL alignment is not centered
C16_Witness ==
    /\ lastOp = "export-image"
    /\ GuiGetStyle(guiStyle, SLIDER, SLIDER_WIDTH) # 10
    /\ GuiGetStyle(guiStyle, LABEL, TEXT_ALIGNMENT) # GUI_TEXT_ALIGN_CENTER
    /\ StyleChangesCounter(guiStyle, styleBackup) >= 1

\* The handles open after the first k calls of the trace: those fopen
\* returned less those fclose closed
OpenHandles(ops, k) ==
    Cardinality({n \in 1 .. k : ops[n] = "fopen"})
    - Cardinality({n \in 1 .. k : ops[n] = "fclose"})

\* C17: SaveStyle and ExportStyleAsCode leak no file handle: on every path
\* (fopen fails, a format with no branch, font or no font) each handle fopen
\* returned is closed by fclose once before the function returns, and at
\* most one handle is open at any time.
C17_NoHandleLeak ==
    /\ \A k \in 0 .. Len(fileOps) : OpenHandles(fileOps, k) \in {0, 1}
    /\ OpenHandles(fileOps, Len(fileOps)) = 0

\* A binary save with an embedded font: its handle was open during the
\* writing and is closed at the return
C17_Witness ==
    /\ SavedBinary
    /\ customFontLoaded
    /\ Len(fileOps) = 2
    /\ OpenHandles(fileOps, 1) = 1
    /\ OpenHandles(fileOps, 2) = 0

C19_RebuildsAllButSuppressed ==
    SavedBinary =>
        /\ FileHoldsRecords
        /\ \A i \in Controls, j \in Props :
              GuiGetStyle(ApplyRecords(styleBackup, FileRecords), i, j)
                  = IF /\ i # 0
                       /\ GuiGetStyle(guiStyle, i, j) # GuiGetStyle(styleBackup, i, j)
                       /\ GuiGetStyle(guiStyle, i, j) = GuiGetStyle(guiStyle, 0, j)
                    THEN GuiGetStyle(styleBackup, i, j)
                    ELSE GuiGetStyle(guiStyle, i, j)

\* The atlas byte array of a generated file: the position of the line that
\* opens it, of the " };" that closes it, and the lines in between
AtlasOpen(frags) ==
    CHOOSE k \in LineStarts(frags) : frags[k] = "static unsigned char "

AtlasClose(frags) ==
    CHOOSE m \in AtlasOpen(frags) .. Len(frags) :
        /\ frags[m] = " };"
        /\ \A x \in AtlasOpen(frags) .. m - 1 : frags[x] # " };"

AtlasLineStarts(frags) ==
    {k \in LineStarts(frags) : AtlasOpen(frags) <= k /\ k <= AtlasClose(frags)}

\* The number of "0x.." literals a line holds
EntriesOfLine(line) == Cardinality({x \in 1 .. Len(line) : line[x] = "0x"})

HasAtlas == ExportedCode /\ customFontLoaded

\* C20: the atlas byte array of the generated code has 20 hexadecimal
\* literals a line: every line of the array but the last holds exactly
\* BYTES_TEXT_PER_LINE entries, and the array holds as many entries as there
\* are compressed bytes.
C20_TwentyPerLine ==
    HasAtlas =>
        LET starts == AtlasLineStarts(txtFile)
            last == CHOOSE k \in starts : \A m \in starts : m <= k
        IN  /\ \A k \in starts \ {last} :
                  EntriesOfLine(LineAt(txtFile, k)) = BYTES_TEXT_PER_LINE
            /\ Cardinality({x \in AtlasOpen(txtFile) .. AtlasClose(txtFile) : txtFile[x] = "0x"})
                   = CompressedSize(customFont)

\* What the array does hold: the first line ends after one entry whenever
\* there are two bytes or more, and the entries are as many as the bytes
C20_FirstLineOneEntry ==
    HasAtlas =>
        /\ CompressedSize(customFont) >= 2 =>
              /\ Cardinality(AtlasLineStarts(txtFile)) >= 2
              /\ EntriesOfLine(LineAt(txtFile, AtlasOpen(txtFile))) = 1
        /\ Cardinality({x \in AtlasOpen(txtFile) .. AtlasClose(txtFile) : txtFile[x] = "0x"})
               = CompressedSize(customFont)


\* ------------------------------------------------ the lines of a text file
\* The lines of a text file, in file order
TextLines(frags) ==
    LET starts == SortedSeq(LineStarts(frags))
    IN  [n \in 1 .. Len(starts) |-> LineAt(frags, starts[n])]

\* The fragments SaveStyle() writes that begin with '#'
CommentOpeners ==
    {"#", "# rgs style text file (v",
     "# Info:  p <controlId> <propertyId> <propertyValue>  // Property description",
     "# WARNING: This style uses a custom font, must be provided with style file"}

IsCommentLine(line) == Len(line) >= 1 /\ line[1] \in CommentOpeners

\* An 'f' line of the text format: f <size> <spacing> <font file>
IsFontLine(line) ==
    LET size == DigitRun(line, 3)
        spacing == DigitRun(line, 3 + Len(size) + 1)
    IN  /\ Len(line) >= 7
        /\ line[1] = "f" /\ line[2] = " "
        /\ size # <<>> /\ line[3 + Len(size)] = " "
        /\ spacing # <<>> /\ line[3 + Len(size) + 1 + Len(spacing)] = " "
        /\ Len(line) = 3 + Len(size) + 1 + Len(spacing) + 1

\* The 'p' lines are one per Change-Set entry, in Change-Set order
DataLinesAreChangeSet ==
    LET q == TextTriples(txtFile)
    IN  /\ Len(q) = Cardinality(ChangeSet)
        /\ SeqRange(q) = ChangeSet
        /\ Ascending(q)

C28_ProvidedFontIsLoaded ==
    fontFileProvided => (customFontLoaded /\ fontFilePath # "")

\* Every operation but the reset keeps it: the state the reset leaves is the
\* only one where a provided font has no path
C28_BrokenOnlyByReset ==
    [][(lastOp' # "reset" /\ C28_ProvidedFontIsLoaded) => C28_ProvidedFontIsLoaded']_vars

\* ------------------------------------------------------------------- C23
\* The property that entry `index` of DEFAULT's properties list names:
\* guiPropsDefaultText has the twelve colours, then BACKGROUND_COLOR at 12
\* and LINE_COLOR at 13
DefaultListTarget(index) ==
    IF index = 12 THEN BACKGROUND_COLOR ELSE IF index = 13 THEN LINE_COLOR ELSE index

\* The property the frame that starts in this state edits: none when the
\* selected control has just changed
EditedProperty ==
    IF previousSelectedControl # currentSelectedControl THEN 0 - 1 ELSE currentSelectedProperty

\* C23: with DEFAULT selected, a frame changes no property of DEFAULT but the
\* one its list entry names (entries 0..11 the colour of the same index,
\* entry 12 BACKGROUND_COLOR, entry 13 LINE_COLOR) and writes the colour
\* picker's value there; DEFAULT's BORDER_WIDTH, TEXT_PADDING and
\* TEXT_ALIGNMENT are never written; and in the frame in which the entry is
\* newly selected the colour picker takes the value of that same property.
C23_DefaultIndexMap ==
    [][currentSelectedControl = DEFAULT =>
          LET p == EditedProperty
              target == DefaultListTarget(p)
          IN  /\ \A q \in Props :
                    guiStyle'[q] # guiStyle[q] => (p \in 0 .. 13 /\ q = target)
              /\ \A q \in {BORDER_WIDTH, TEXT_PADDING, TEXT_ALIGNMENT} :
                    guiStyle'[q] = guiStyle[q]
              /\ (p \in 0 .. 13 /\ previousSelectedProperty = p) =>
                    guiStyle'[target] = ColorToInt(colorPickerValue)
              /\ (p \in 0 .. 13 /\ previousSelectedProperty # p) =>
                    /\ guiStyle' = guiStyle
                    /\ lastOp' # "color-picker" =>
                          colorPickerValue' = GetColor(guiStyle[target])]_vars

\* With DEFAULT's entry 13 selected the user has set LINE_COLOR, after
\* setting BACKGROUND_COLOR through entry 12
C23_Witness ==
    /\ currentSelectedControl = DEFAULT
    /\ currentSelectedProperty = 13
    /\ previousSelectedProperty = 13
    /\ guiStyle[LINE_COLOR] = ColorSample
    /\ guiStyle[BACKGROUND_COLOR] = ColorSample
    /\ styleBackup[LINE_COLOR] # ColorSample
    /\ styleBackup[BACKGROUND_COLOR] # ColorSample
    /\ lastOp = "idle"

\* ------------------------------------------------------------------- C27
\* The inputs with which the user changes an editor widget
EditEvents == {"color-picker", "value-slider", "alignment-toggle"}

\* The editor widget of the selected property holds the store's value of it
EditorHoldsStore ==
    LET c == currentSelectedControl
        p == currentSelectedProperty
    IN  IF c = DEFAULT
        THEN colorPickerValue = GetColor(GuiGetStyle(guiStyle, c, DefaultListTarget(p)))
        ELSE IF p <= TEXT_COLOR_DISABLED
        THEN colorPickerValue = GetColor(GuiGetStyle(guiStyle, c, p))
        ELSE IF p = TEXT_ALIGNMENT
        THEN textAlignmentActive = GuiGetStyle(guiStyle, c, p)
        ELSE propertyValue = GuiGetStyle(guiStyle, c, p)

C24_DirectSaveWritesStyleFile ==
    (lastOp = "CTRL_S" /\ fileName # <<>>) => IsFileExtension(fileName[1], ".rgs")

\* ------------------------------------------------------------------- C25
\* C25: a frame in which ESC is pressed with the about window closed sets
\* exitWindow only if the Change-Set of the store the frame starts with is
\* empty, and otherwise toggles the exit window and does not exit.
C25_EscAsksBeforeLeaving ==
    [][(lastOp' = "ESC" /\ ~windowAboutActive) =>
          IF StyleChangesCounter(guiStyle, styleBackup) = 0
          THEN TRUE
          ELSE ~exitWindow' /\ windowExitActive' = ~windowExitActive]_vars

\* ------------------------------------------------------------------- C26
\* C26: the frame after a style is loaded (at startup, by the load dialog or
\* by a drop) leaves the store as loaded, and the count of changes after a
\* startup load stays 0.
C26_LoadedStoreStays ==
    [][(lastOp \in {"start", "load-ok", "drop"} /\ lastOp' = "idle") =>
          /\ guiStyle' = guiStyle
          /\ lastOp = "start" => StyleChangesCounter(guiStyle', styleBackup') = 0]_vars

\* ------------------------------------------------------------------- C29
\* C29: once the style is exported out of the export dialog while the exit
\* window is shown, the application exits without further input: the loop has
\* ended, or the frames that follow without input end it.  Two idle frames
\* that leave the same state show all that frames without input will do.
C29_SaveAndQuitExits ==
    (lastOp = "export-ok" /\ windowExitActive /\ fileName # <<>>) =>
        \E first \in {FrameEnd(Current, Idle)} :
            \E second \in {FrameEnd(first, Idle)} :
                exitWindow \/ first.exitWindow \/ second.exitWindow \/ second # first

\* ------------------------------------------------------------------- C30
\* What an idle frame leaves of the store, the baseline, the fonts and the files
SameAsIdleFrame ==
    /\ guiStyle' = FrameEnd(Current, Idle).guiStyle
    /\ styleBackup' = styleBackup
    /\ guiFont' = guiFont
    /\ customFont' = customFont
    /\ customFontLoaded' = customFontLoaded
    /\ fontFilePath' = fontFilePath
    /\ fontFileProvided' = fontFileProvided
    /\ rgsFile' = NoFile
    /\ txtFile' = NoFile
    /\ fileOps' = <<>>
    /\ fileName' = <<>>

\* The show flag `shown` of a dialog over a frame whose input the dialog
\* answers with 1 (ok), with 0 (cancel), or not at all
FlagFollowsResult(shown, shownAfter, ok, cancel) ==
    shown => (shownAfter <=> lastOp' \notin {ok, cancel})

\* C30: a frame in which a dialog is cancelled loads no style and no font,
\* writes no file and leaves the store, the baseline and the font flags as
\* an idle frame does; a dialog's show flag stays set over a frame in which
\* the dialog gives no result and is cleared in the frame in which it gives
\* one; and a file is written only in a frame in which a dialog was
\* confirmed or Ctrl+S was pressed, which the cleared flag makes once per
\* confirmation.
C30_CancelledDialogHasNoEffect ==
    [][/\ lastOp' \in {"load-cancel", "font-cancel", "save-cancel", "export-cancel"} =>
             SameAsIdleFrame
       /\ FlagFollowsResult(showLoadFileDialog, showLoadFileDialog', "load-ok", "load-cancel")
       /\ FlagFollowsResult(showLoadFontFileDialog, showLoadFontFileDialog',
                            "font-ok", "font-cancel")
       /\ FlagFollowsResult(showSaveFileDialog, showSaveFileDialog', "save-ok", "save-cancel")
       /\ FlagFollowsResult(showExportFileDialog, showExportFileDialog',
                            "export-ok", "export-cancel")
       /\ fileName' # <<>> => lastOp' \in {"save-ok", "export-ok", "CTRL_S"}
       /\ lastOp' \in {"save-ok", "export-ok"} => (fileName' # <<>> /\ ~AnyDialog')
       /\ lastOp' \notin {"load-ok", "font-ok", "drop", "CTRL_R"} =>
             (guiFont' = guiFont /\ customFontLoaded' = customFontLoaded)]_vars

\* The export dialog that "Yes" of the exit window opened has been
\* cancelled, with changes in the store
C30_Witness ==
    /\ lastOp = "export-cancel"
    /\ windowExitActive
    /\ ~showExportFileDialog
    /\ StyleChangesCounter(guiStyle, styleBackup) > 0

\* ------------------------------------------------------------------- C22
\* The format the command line asks for: the number after --format or -f
\* when it is one of 0..3, and binary otherwise
FormatAsked ==
    IF \E i \in 1..(Len(argv) - 1) :
           argv[i] \in {"-f", "--format"} /\ argv[i + 1] \in {"0", "1", "2", "3"}
    THEN TextToInteger(argv[1 + CHOOSE i \in 1..(Len(argv) - 1) :
                                     argv[i] \in {"-f", "--format"}])
    ELSE STYLE_BINARY

\* The export each format value stands for
KindOfFormat(format) == <<"binary", "code", "table-image", "text">>[format + 1]

\* C22: when the process has returned after reading a valid --input file, it
\* has returned 0 and has written exactly one file, of the kind the format
\* asked for stands for: 0 binary, 1 code, 2 table image, 3 text, and binary
\* when no format or a format out of 0..3 was given.
C22_FormatSelectsExport ==
    (exitCode >= 0 /\ cmdInFileName # "") =>
        /\ exitCode = 0
        /\ Len(outputs) = 1
        /\ outputs[1][1] = KindOfFormat(FormatAsked)

\* The same for every format but text, which writes nothing; and nothing is
\* written without a valid input file
C22_AllButTextExport ==
    exitCode >= 0 =>
        /\ exitCode = 0
        /\ outputFormat = FormatAsked
        /\ IF cmdInFileName # "" /\ FormatAsked # STYLE_TEXT
           THEN Len(outputs) = 1 /\ outputs[1][1] = KindOfFormat(FormatAsked)
           ELSE outputs = <<>>

====
